---- MODULE Spec2Model ----
(***************************************************************************)
(* Capture -> segmentation -> transcription pipeline of the repository:    *)
(* AudioCapture (src/src/audio_capture.py), TranscriptionService           *)
(* (src/src/transcription.py), the wiring of TranscriptionApp              *)
(* (src/src/automation.py) and WebUI._force_transcribe (src/src/web_ui.py).*)
(*                                                                         *)
(* Scale of the model.  One tick of `now` is one poll interval of the      *)
(* control loop (time.sleep(0.1)).  The audio source delivers one frame    *)
(* per tick while the stream is open; a frame is one model sample, so      *)
(* the capture rate is TicksPerSecond samples per second and a 100 ms      *)
(* sub-chunk is sample_rate \div TicksPerSecond samples.  Amplitudes are    *)
(* integers in units of 0.005, so RMS comparisons are done on sums of      *)
(* squares.  Durations of the configuration are held in ticks.             *)
(***************************************************************************)
EXTENDS Integers, Sequences, FiniteSets, TLC

VARIABLES
    cfg,                 \* AudioConfig in force (self.config)
    now,                 \* time.time(), in ticks
    frameDue,            \* the source has a frame to deliver in this tick
    pollDue,             \* the control loop has not yet polled in this tick
    recording,           \* AudioCapture._recording
    paused,              \* AudioCapture._paused
    stop_event,          \* AudioCapture._stop_event
    recPc,               \* control thread: "none", "open", "loop", "body", "save1",
                         \*   "body2", "save2", "done"
    stream,              \* the sd.InputStream of the control thread is open
    segment_start_time,  \* local of _record_loop
    audio_buffer,        \* AudioCapture._audio_buffer (frames)
    segment_queue,       \* AudioCapture._segment_queue (segment ids)
    silence_start,       \* AudioCapture._silence_start (None = -1)
    last_audio_time,     \* AudioCapture._last_audio_time (None = -1)
    cbPc,                \* audio callback: "idle", "append", "score"
    cbFrame,             \* frame the callback is working on
    segs,                \* every AudioSegment created, in creation order
    files,               \* paths of the audio files on disk
    lastFlush,           \* history: the most recent flush of a non-empty buffer and its file
    silenceFlushes,      \* history: silence flushes in the current silence period
    droppedInBuf,        \* history: a frame was dropped since the last flush
    running,             \* TranscriptionApp._running
    appPaused,           \* TranscriptionApp._paused
    stopPc,              \* TranscriptionApp.stop: "idle", "joinRec", "joinWorker"
    startPc,             \* a start in progress: "idle", "init", "loading"
    model,               \* TranscriptionService._model is not None
    model_lock,          \* TranscriptionService._model_lock: "free" or its holder
    callback_set,        \* TranscriptionService._on_transcription_complete is set
    callerPc,            \* a thread in transcribe_file: "idle", "init", "loading",
                         \*   "lock", "engine"
    nCalls,              \* number of calls of transcribe_file so far
    lastOutcome,         \* history: how the worker's last consumption ended
    stopBuf,             \* history: the buffered samples when stop was requested
    processing,          \* TranscriptionService._processing
    t_stop_event,        \* TranscriptionService._stop_event
    wPc,                 \* worker thread: "none", "top", "get", "lock", "engine", "done"
    wSeg,                \* segment the worker is transcribing (0 = none)
    transcription_queue, \* TranscriptionService._transcription_queue
    result_queue,        \* TranscriptionService._result_queue
    total_processed,     \* TranscriptionService._total_processed
    engineLog,           \* history: segment ids handed to the engine, in order
    published,           \* history: segment ids of the results put on the result queue
    nStarts,              \* number of calls of TranscriptionApp.start so far
    nPauses,              \* number of calls of TranscriptionApp.pause so far
    returned,            \* history: segment ids returned by get_completed_segments
    buffer_lock,         \* AudioCapture._buffer_lock: "free" or its holder
    flush,               \* a _save_current_buffer in progress: its position,
                         \*   what called it and its local audio_data
    total_processing_time, \* TranscriptionService._total_processing_time
    resultTimes,         \* history: processing_time of the results put on the queue
    handled,             \* history: segment ids of the results passed to
                         \*   TranscriptionApp._on_transcription_complete
    raising,             \* which of the registered callbacks raise: "segment",
                         \*   "result"
    oldW,                \* a worker thread abandoned by stop_processing that is
                         \*   still alive: its position
    oldRec,              \* a control thread abandoned by stop_recording that is
                         \*   still alive: its position and the flush it is in
    stopCalls            \* history: calls of stop_recording and stop_processing

captureVars == <<recording, paused, stop_event, recPc, segment_start_time,
                 audio_buffer, segment_queue, silence_start, last_audio_time,
                 cbPc, cbFrame>>
flushVars == <<audio_buffer, segs, files, segment_queue, transcription_queue,
               lastFlush, silenceFlushes, droppedInBuf>>
boundVars == <<nStarts, nPauses>>
\* the buffer lock and the flush that is under way
lockVars == <<buffer_lock, flush>>
\* the cumulative processing time and the times that went into it
statVars == <<total_processing_time, resultTimes>>
\* the callbacks' behaviour, the abandoned threads and the calls counted
extVars == <<handled, raising, oldW, oldRec, stopCalls>>
detailVars == <<returned, buffer_lock, flush, total_processing_time,
                resultTimes, handled, raising, oldW, oldRec, stopCalls>>
\* the model, its lock, the registered callback and the synchronous caller
serviceVars == <<model, model_lock, callback_set, callerPc, nCalls, lastOutcome>>
workerVars == <<processing, t_stop_event, wPc, wSeg, transcription_queue,
                result_queue, total_processed, engineLog, published>>
vars == <<cfg, now, frameDue, pollDue, recording, paused, stop_event, recPc,
          segment_start_time, audio_buffer, segment_queue, silence_start,
          last_audio_time, cbPc, cbFrame, segs, files, lastFlush, silenceFlushes,
          droppedInBuf, running, appPaused, stopPc, processing, t_stop_event,
          wPc, wSeg, transcription_queue, result_queue, total_processed,
          engineLog, published, nStarts, nPauses, stream, startPc, model,
          model_lock, callback_set, callerPc, nCalls, lastOutcome, stopBuf,
          returned, buffer_lock, flush, total_processing_time, resultTimes,
          handled, raising, oldW, oldRec, stopCalls>>

----------------------------------------------------------------------------
(* Bounds and scale of the model *)

MaxTime == 8
\* the whole application (capture, worker and dashboard together) is
\* explored up to this time
MaxTimeApp == 6
TicksPerSecond == 2
SilenceDuration == 2
ChunkDuration == 4
MaxStarts == 1
MaxPauses == 1
\* content check alone: longest buffer and most non-silent samples drawn
MaxContentLen == 22
MaxLoud == 2
\* the service alone: audio files pending, calls of queue_audio_segment and
\* of transcribe_file
MaxPending == 2
MaxQueued == 2
MaxCalls == 1
\* the application with fair threads is explored up to this time, and
\* emits at most this many segments
MaxTimeLive == 5
MaxSegsLive == 2
\* the application with raising callbacks is explored up to this time
MaxTimeFaults == 5
\* the components on their own: calls of start and of stop at most
MaxRestarts == 2
MaxStops == 2
\* the components stopped more than once are explored up to this time
MaxTimeStops == 4
\* the capture stopped and started again is explored up to this time
MaxTimeRecorder == 5
\* capture with a short minimum duration is explored up to this time
MaxTimeNames == 5
\* the flush with its lock is explored up to this time
MaxTimeBuffer == 6
\* capture with frames around the threshold is explored up to this time
MaxTimeLevels == 5
\* the encoding alone: longest buffer
MaxEncodeLen == 3

None == -1

\* amplitudes a frame can have: silence, and 0.05 (above both thresholds)
Levels == {0, 10}

\* AudioConfig: thresholds 0.02 and 0.015 in units of 0.005; min_audio_duration
\* is kept above one second so that consecutive segments get distinct file names
DefaultConfig ==
    [sample_rate |-> TicksPerSecond,
     chunk_duration |-> ChunkDuration,
     silence_threshold |-> 4,
     silence_duration |-> SilenceDuration,
     min_audio_duration |-> TicksPerSecond + 1,
     noise_gate_threshold |-> 3,
     channels |-> 1]

----------------------------------------------------------------------------
(* Pure functions of AudioCapture *)

RECURSIVE SumSq(_)
SumSq(s) == IF s = <<>> THEN 0 ELSE Head(s) * Head(s) + SumSq(Tail(s))

\* np.concatenate(self._audio_buffer): the samples of the buffered frames
AudioData(buf) == [i \in 1..Len(buf) |-> buf[i].lvl]

\* rms > threshold, for rms = sqrt(mean(x^2)) and a threshold >= 0
RmsAbove(s, thr) == SumSq(s) > thr * thr * Len(s)
\* rms < threshold
RmsBelow(s, thr) == SumSq(s) < thr * thr * Len(s)

\* a duration check that lets a buffer one sample too short pass
DurationBelowMinLenient(n, c) ==
    (n + 1) * TicksPerSecond < c.min_audio_duration * c.sample_rate

\* duration = len(audio_data) / sample_rate; duration < min_duration
\* (n samples last n * TicksPerSecond / sample_rate ticks)
DurationBelowMin(n, c) == n * TicksPerSecond < c.min_audio_duration * c.sample_rate

\* chunk_size = int(sample_rate * 0.1); 0.1 s is one tick
ChunkSize(c) == c.sample_rate \div TicksPerSecond

\* for i in range(0, len(audio_data), chunk_size): audio_data[i : i + chunk_size]
ChunkStarts(n, cs) == {i \in 0..(n - 1) : i % cs = 0}
ChunkAt(s, i, cs) ==
    SubSeq(s, i + 1, IF i + cs < Len(s) THEN i + cs ELSE Len(s))

\* the former requirement of 20% of the chunks
RatioOkTwenty(above, total) == above * 5 >= total

\* content_ratio >= 0.1
RatioOk(above, total) == above * 10 >= total

HasSufficientAudioContent(s, c) ==
    LET thr == c.noise_gate_threshold
        cs == ChunkSize(c)
        offsets == ChunkStarts(Len(s), cs)
        above == Cardinality({i \in offsets : RmsAbove(ChunkAt(s, i, cs), thr)})
        total == Cardinality(offsets)
    IN  IF RmsBelow(s, thr) THEN FALSE
        ELSE IF total = 0 THEN FALSE
        ELSE RatioOk(above, total)

\* timestamp.strftime('%Y%m%d_%H%M%S'): the file name has a resolution of 1 s
FileName(t) == t \div TicksPerSecond

----------------------------------------------------------------------------
(* The WAV file of a segment; lastFlush.wav is the file a flush wrote.     *)
(* A sample of level lvl is the float lvl * 0.005, so 1.0 is level 200.     *)

RECURSIVE Sum(_)
Sum(s) == IF s = <<>> THEN 0 ELSE Head(s) + Sum(Tail(s))

\* a / b truncated toward zero, for b > 0
TruncDiv(a, b) == IF a >= 0 THEN a \div b ELSE -((-a) \div b)

\* _audio_callback: np.mean(indata, axis=1) for more than one channel,
\* indata[:, 0] for one; chs holds the levels of the channels of one frame
\* (the levels fed are multiples of the channel count, so the mean is exact)
DownMix(chs) == IF Len(chs) > 1 THEN TruncDiv(Sum(chs), Len(chs)) ELSE chs[1]

\* audio_data * 32767, the fraction dropped as the conversion to an integer
\* drops it
Scaled(lvl) == TruncDiv(lvl * 32767, 200)

InInt16(v) == v >= -32768 /\ v <= 32767
Wrap16(v) == ((v + 32768) % 65536) - 32768
Saturate16(v) == IF v > 32767 THEN 32767 ELSE IF v < -32768 THEN -32768 ELSE v

\* what the conversion of an out-of-range float to int16 can give: undefined
\* in C, it wraps on builds that convert through a wider integer and
\* saturates on builds whose conversion instruction saturates
CastModes == {"wrap", "saturate"}

\* .astype(np.int16)
AsInt16(v, mode) ==
    IF InInt16(v) THEN v
    ELSE IF mode = "wrap" THEN Wrap16(v)
    ELSE Saturate16(v)

\* audio_int16 = (audio_data * 32767).astype(np.int16)
EncodeInt16(data, mode) ==
    [i \in 1..Len(data) |-> AsInt16(Scaled(data[i]), mode)]

\* wave.open(..., "wb"): setnchannels(self.config.channels), setsampwidth(2),
\* setframerate(self.config.sample_rate), writeframes(audio_int16.tobytes())
WavFile(data, c, mode) ==
    [nchannels |-> c.channels, sampwidth |-> 2, framerate |-> c.sample_rate,
     samples |-> EncodeInt16(data, mode)]

\* the number of frames of the file: bytes of data \div (sampwidth * nchannels)
WavFrames(w) == (Len(w.samples) * 2) \div (w.sampwidth * w.nchannels)

\* no file written yet
NoWav == [nchannels |-> 0, sampwidth |-> 0, framerate |-> 0, samples |-> <<>>]

\* no _save_current_buffer under way
NoFlush == [pc |-> "idle", trigger |-> "none", data |-> <<>>]

\* no abandoned control thread
NoThread == [pc |-> "none", trigger |-> "none", data |-> <<>>]

----------------------------------------------------------------------------
(* TranscriptionService.queue_audio_segment *)

QueueAudioSegment(q, id, path, fs) ==
    IF path \notin fs THEN q ELSE Append(q, id)

----------------------------------------------------------------------------
InitCore(c) ==
    /\ cfg = c
    /\ now = 0
    /\ frameDue = FALSE
    /\ pollDue = FALSE
    /\ recording = FALSE
    /\ paused = FALSE
    /\ stop_event = FALSE
    /\ recPc = "none"
    /\ segment_start_time = 0
    /\ audio_buffer = <<>>
    /\ segment_queue = <<>>
    /\ silence_start = None
    /\ last_audio_time = None
    /\ cbPc = "idle"
    /\ cbFrame = [lvl |-> 0, pz |-> FALSE]
    /\ lastFlush = [id |-> 0, trigger |-> "none", data |-> <<>>, outcome |-> "none",
                    dropped |-> FALSE, wav |-> NoWav]
    /\ silenceFlushes = 0
    /\ droppedInBuf = FALSE
    /\ running = FALSE
    /\ appPaused = FALSE
    /\ stopPc = "idle"
    /\ processing = FALSE
    /\ t_stop_event = FALSE
    /\ wPc = "none"
    /\ wSeg = 0
    /\ transcription_queue = <<>>
    /\ result_queue = <<>>
    /\ total_processed = 0
    /\ engineLog = <<>>
    /\ published = <<>>
    /\ nStarts = 0
    /\ nPauses = 0
    /\ stream = FALSE
    /\ startPc = "idle"
    /\ model = FALSE
    /\ model_lock = "free"
    /\ callerPc = "idle"
    /\ nCalls = 0
    /\ lastOutcome = "none"
    /\ stopBuf = <<>>
    /\ returned = <<>>
    /\ buffer_lock = "free"
    /\ flush = NoFlush
    /\ total_processing_time = 0
    /\ resultTimes = <<>>
    /\ handled = <<>>
    /\ raising = {}
    /\ oldW = "none"
    /\ oldRec = NoThread
    /\ stopCalls = [recorder |-> 0, service |-> 0]

\* TranscriptionApp.__init__: nothing captured yet, and the result handler
\* _on_transcription_complete is registered with the service
InitWith(c) ==
    /\ InitCore(c)
    /\ segs = <<>>
    /\ files = {}
    /\ callback_set = TRUE

Init == InitWith(DefaultConfig)

----------------------------------------------------------------------------
(* AudioCapture._save_current_buffer, with the segment callback              *)
(* TranscriptionApp._on_audio_segment -> queue_audio_segment.  `ok` is        *)
(* whether writing the WAV file succeeds.                                     *)

FlushOutcome(data, c, ok) ==
    IF DurationBelowMin(Len(data), c) THEN "short"
    ELSE IF ~HasSufficientAudioContent(data, c) THEN "lowcontent"
    ELSE IF ok THEN "emitted"
    ELSE "encodefail"

\* a failed write that leaves the partially written file behind
UnlinkPartialKeeps(fs, path) == fs \cup {path}

\* except: if file_path.exists(): file_path.unlink()
UnlinkPartial(fs, path) == fs \ {path}

\* a cleanup that leaves the segment queue as it is
QueueAfterKeeps(q, cleanup) == q

\* _cleanup_resources empties the segment queue; `cleanup` is whether the
\* caller (stop_recording) runs it after the save
QueueAfter(q, cleanup) == IF cleanup THEN <<>> ELSE q

\* a flush in which an exception of the segment callback reaches the outer
\* handler, which removes the file
AfterSegmentCallbackUnlinks(fs, path, raises) ==
    IF raises THEN fs \ {path} ELSE fs

\* the segment callback is called inside its own try/except: the files are
\* as the write left them whether it raises or not
AfterSegmentCallback(fs, path, raises) == fs

\* self._on_segment_complete(segment), TranscriptionApp._on_audio_segment:
\* the segment is queued for transcription unless the callback raises
OnSegmentComplete(q, id, path, fs, raises) ==
    IF raises THEN q ELSE QueueAudioSegment(q, id, path, fs)

\* _save_current_buffer from the duration check on: `frames` is what was
\* taken out of the buffer under the lock
WriteSegment(frames, trigger, ok, cleanup) ==
    LET data == AudioData(frames)
        outcome == FlushOutcome(data, cfg, ok)
        path == FileName(now)
        id == Len(segs) + 1
    IN  /\ \E mode \in CastModes :
              lastFlush' = [id |-> lastFlush.id + 1, trigger |-> trigger,
                            data |-> data, outcome |-> outcome,
                            dropped |-> droppedInBuf,
                            wav |-> IF outcome = "emitted"
                                    THEN WavFile(data, cfg, mode)
                                    ELSE NoWav]
        /\ droppedInBuf' = FALSE
        /\ silenceFlushes' = IF trigger = "silence" THEN silenceFlushes + 1
                             ELSE silenceFlushes
        /\ IF outcome = "emitted"
           THEN /\ files' = AfterSegmentCallback(files \cup {path}, path,
                                                  "segment" \in raising)
                /\ segs' = Append(segs,
                       [path |-> path, n |-> Len(data), end |-> now,
                        np |-> Cardinality({i \in 1..Len(frames) :
                                               frames[i].pz})])
                /\ segment_queue' =
                       QueueAfter(Append(segment_queue, id), cleanup)
                /\ transcription_queue' =
                       OnSegmentComplete(transcription_queue, id, path, files',
                                         "segment" \in raising)
           ELSE IF outcome = "encodefail"
           THEN /\ files' = UnlinkPartial(files, path)
                /\ segment_queue' = QueueAfter(segment_queue, cleanup)
                /\ UNCHANGED <<segs, transcription_queue>>
           ELSE /\ segment_queue' = QueueAfter(segment_queue, cleanup)
                /\ UNCHANGED <<files, segs, transcription_queue>>

\* _save_current_buffer as one step: the buffer is taken and cleared, then
\* checked and written
SaveBuffer(trigger, ok, cleanup) ==
    IF audio_buffer = <<>>
    THEN /\ segment_queue' = QueueAfter(segment_queue, cleanup)
         /\ UNCHANGED <<audio_buffer, segs, files, transcription_queue,
                        lastFlush, silenceFlushes, droppedInBuf>>
    ELSE /\ audio_buffer' = <<>>
         /\ WriteSegment(audio_buffer, trigger, ok, cleanup)

SaveCurrentBuffer(trigger, ok) == SaveBuffer(trigger, ok, FALSE)

----------------------------------------------------------------------------
(* The control thread: AudioCapture._record_loop *)

\* a cap that fires only once the chunk duration has been exceeded
ChunkElapsedLate(t, start, c) == t - start > c.chunk_duration

\* current_time - segment_start_time >= self.config.chunk_duration
ChunkElapsed(t, start, c) == t - start >= c.chunk_duration

\* AudioCapture._should_segment_on_silence
ShouldSegmentOnSilence(ss, la, buf, t, c) ==
    IF ss = None \/ la = None THEN FALSE
    ELSE Len(buf) > 0 /\ t - ss >= c.silence_duration

\* sd.InputStream(...) opens; segment_start_time = time.time()
RecordLoopOpen ==
    /\ recPc = "open"
    /\ recPc' = "loop"
    /\ segment_start_time' = now
    /\ pollDue' = TRUE
    /\ frameDue' = FALSE
    /\ UNCHANGED <<boundVars, stopBuf, cfg, now, recording, paused, stop_event, audio_buffer,
                   segment_queue, silence_start, last_audio_time, cbPc, cbFrame,
                   segs, files, lastFlush, silenceFlushes, droppedInBuf, running,
                   appPaused, stopPc, workerVars>>
    /\ stream' = TRUE
    /\ UNCHANGED <<startPc, serviceVars>>
    /\ UNCHANGED detailVars

\* a control thread that goes on into its loop without a stream
RecordLoopOpenFailContinues ==
    /\ recPc = "open"
    /\ recPc' = "loop"
    /\ pollDue' = TRUE
    /\ UNCHANGED <<boundVars, stopBuf, cfg, now, frameDue, recording, paused,
                   stop_event, segment_start_time, audio_buffer, segment_queue,
                   silence_start, last_audio_time, cbPc, cbFrame, segs, files,
                   lastFlush, silenceFlushes, droppedInBuf, running, appPaused,
                   stopPc, workerVars, stream, startPc, serviceVars>>
    /\ UNCHANGED detailVars

\* sd.InputStream(...) raises: the except clause logs and the thread ends
RecordLoopOpenFail ==
    /\ recPc = "open"
    /\ recPc' = "done"
    /\ UNCHANGED <<boundVars, stopBuf, cfg, now, frameDue, pollDue, recording, paused, stop_event,
                   segment_start_time, audio_buffer, segment_queue, silence_start,
                   last_audio_time, cbPc, cbFrame, segs, files, lastFlush,
                   silenceFlushes, droppedInBuf, running, appPaused, stopPc,
                   workerVars>>
    /\ UNCHANGED <<stream, startPc, serviceVars>>
    /\ UNCHANGED detailVars

\* `while not self._stop_event.is_set()` finds the event clear; the event
\* can be set at any moment after this test
RecordLoopTest ==
    /\ recPc = "loop"
    /\ pollDue
    /\ ~stop_event
    /\ recPc' = "body"
    /\ UNCHANGED <<boundVars, stopBuf, cfg, now, frameDue, pollDue, recording, paused, stop_event,
                   segment_start_time, audio_buffer, segment_queue, silence_start,
                   last_audio_time, cbPc, cbFrame, segs, files, lastFlush,
                   silenceFlushes, droppedInBuf, running, appPaused, stopPc,
                   workerVars, stream, startPc, serviceVars>>
    /\ UNCHANGED detailVars

\* the body of one iteration of the loop, up to time.sleep(0.1)
RecordLoopPoll(ok) ==
    /\ recPc = "body"
    /\ recPc' = "loop"
    /\ pollDue' = FALSE
    /\ IF ChunkElapsed(now, segment_start_time, cfg)
       THEN /\ SaveCurrentBuffer("chunk", ok)
            /\ segment_start_time' = now
       ELSE IF ShouldSegmentOnSilence(silence_start, last_audio_time,
                                      audio_buffer, now, cfg)
       THEN /\ SaveCurrentBuffer("silence", ok)
            /\ segment_start_time' = now
       ELSE UNCHANGED <<flushVars, segment_start_time>>
    /\ UNCHANGED <<boundVars, stopBuf, cfg, now, frameDue, recording, paused, stop_event,
                   silence_start, last_audio_time, cbPc, cbFrame, running,
                   appPaused, stopPc, processing, t_stop_event, wPc, wSeg,
                   result_queue, total_processed, engineLog, published>>
    /\ UNCHANGED <<stream, startPc, serviceVars>>
    /\ UNCHANGED <<returned, lockVars, statVars, extVars>>

\* the loop sees the stop event; leaving `with stream` closes the stream,
\* which waits for a running callback
RecordLoopExit ==
    /\ recPc = "loop"
    /\ pollDue
    /\ stop_event
    /\ cbPc = "idle"
    /\ recPc' = "done"
    /\ pollDue' = FALSE
    /\ frameDue' = FALSE
    /\ UNCHANGED <<boundVars, stopBuf, cfg, now, recording, paused, stop_event, segment_start_time,
                   audio_buffer, segment_queue, silence_start, last_audio_time,
                   cbPc, cbFrame, segs, files, lastFlush, silenceFlushes,
                   droppedInBuf, running, appPaused, stopPc, workerVars>>
    /\ stream' = FALSE
    /\ UNCHANGED <<startPc, serviceVars>>
    /\ UNCHANGED detailVars

\* time passes by one poll interval while the stream is open; the source and
\* the sleeping loop keep time
Tick(maxT) ==
    /\ now < maxT
    /\ recPc = "loop"
    /\ ~pollDue /\ ~frameDue /\ cbPc = "idle"
    /\ now' = now + 1
    /\ pollDue' = (recPc = "loop")
    /\ frameDue' = (recPc = "loop")
    /\ UNCHANGED <<boundVars, stopBuf, cfg, captureVars, segs, files, lastFlush, silenceFlushes,
                   droppedInBuf, running, appPaused, stopPc, workerVars>>
    /\ UNCHANGED <<stream, startPc, serviceVars>>
    /\ UNCHANGED detailVars

----------------------------------------------------------------------------
(* The audio thread: AudioCapture._audio_callback *)

\* a callback that never looks at the paused flag
CallbackDropsNever(p) == FALSE

\* if self._paused: return
CallbackDrops(p) == p

AudioCallbackEnter(lvl) ==
    /\ stream
    /\ frameDue
    /\ cbPc = "idle"
    /\ frameDue' = FALSE
    /\ IF CallbackDrops(paused)
       THEN /\ droppedInBuf' = TRUE
            /\ UNCHANGED <<cbPc, cbFrame>>
       ELSE /\ cbPc' = "append"
            /\ cbFrame' = [lvl |-> DownMix(<<lvl>>), pz |-> paused]
            /\ UNCHANGED droppedInBuf
    /\ UNCHANGED <<boundVars, stopBuf, cfg, now, pollDue, recording, paused, stop_event, recPc,
                   segment_start_time, audio_buffer, segment_queue, silence_start,
                   last_audio_time, segs, files, lastFlush, silenceFlushes,
                   running, appPaused, stopPc, workerVars>>
    /\ UNCHANGED <<stream, startPc, serviceVars>>
    /\ UNCHANGED detailVars

\* a buffer lock that is handed out while it is held
BufferLockFreeAlways(l) == TRUE

\* threading.Lock: `with self._buffer_lock` is entered only while nobody
\* holds it
BufferLockFree(l) == l = "free"

\* with self._buffer_lock: self._audio_buffer.append(audio_data.copy())
AudioCallbackAppend ==
    /\ cbPc = "append"
    /\ BufferLockFree(buffer_lock)
    /\ audio_buffer' = Append(audio_buffer, cbFrame)
    /\ cbPc' = "score"
    /\ UNCHANGED <<boundVars, stopBuf, cfg, now, frameDue, pollDue, recording, paused, stop_event,
                   recPc, segment_start_time, segment_queue, silence_start,
                   last_audio_time, cbFrame, segs, files, lastFlush,
                   silenceFlushes, droppedInBuf, running, appPaused, stopPc,
                   workerVars>>
    /\ UNCHANGED <<stream, startPc, serviceVars>>
    /\ UNCHANGED detailVars

\* a scoring that restarts the silence timer at every silent frame
UpdateSilenceDetectionRestart(frame, ss, la, t, c) ==
    IF SumSq(<<frame.lvl>>) > c.silence_threshold * c.silence_threshold
    THEN <<None, t>>
    ELSE <<t, la>>

\* a scoring that takes a frame at the threshold for audio
UpdateSilenceDetectionAtThreshold(frame, ss, la, t, c) ==
    IF ~RmsBelow(<<frame.lvl>>, c.silence_threshold)
    THEN <<None, t>>
    ELSE IF ss = None THEN <<t, la>> ELSE <<ss, la>>

\* AudioCapture._update_silence_detection: the new (silence_start, last_audio_time)
UpdateSilenceDetection(frame, ss, la, t, c) ==
    IF RmsAbove(<<frame.lvl>>, c.silence_threshold)
    THEN <<None, t>>
    ELSE IF ss = None THEN <<t, la>> ELSE <<ss, la>>

AudioCallbackScore ==
    /\ cbPc = "score"
    /\ LET r == UpdateSilenceDetection(cbFrame, silence_start, last_audio_time,
                                       now, cfg)
       IN  /\ silence_start' = r[1]
           /\ last_audio_time' = r[2]
           /\ silenceFlushes' = IF silence_start = None /\ r[1] # None THEN 0
                                ELSE silenceFlushes
    /\ cbPc' = "idle"
    /\ UNCHANGED <<boundVars, stopBuf, cfg, now, frameDue, pollDue, recording, paused, stop_event,
                   recPc, segment_start_time, audio_buffer, segment_queue,
                   cbFrame, segs, files, lastFlush, droppedInBuf, running,
                   appPaused, stopPc, workerVars>>
    /\ UNCHANGED <<stream, startPc, serviceVars>>
    /\ UNCHANGED detailVars

----------------------------------------------------------------------------
(* The worker thread: TranscriptionService._processing_loop *)

\* while not self._stop_event.is_set()
WorkerCheckStop ==
    /\ wPc = "top"
    /\ wPc' = IF t_stop_event THEN "done" ELSE "get"
    /\ UNCHANGED <<boundVars, stopBuf, cfg, now, frameDue, pollDue, captureVars, segs, files,
                   lastFlush, silenceFlushes, droppedInBuf, running, appPaused,
                   stopPc, processing, t_stop_event, wSeg, transcription_queue,
                   result_queue, total_processed, engineLog, published>>
    /\ UNCHANGED <<stream, startPc, serviceVars>>
    /\ UNCHANGED detailVars

\* self._transcription_queue.get(timeout=1.0) raises Empty: continue
WorkerGetTimeout ==
    /\ wPc = "get"
    /\ transcription_queue = <<>>
    /\ t_stop_event
    /\ wPc' = "top"
    /\ UNCHANGED <<boundVars, stopBuf, cfg, now, frameDue, pollDue, captureVars, segs, files,
                   lastFlush, silenceFlushes, droppedInBuf, running, appPaused,
                   stopPc, processing, t_stop_event, wSeg, transcription_queue,
                   result_queue, total_processed, engineLog, published>>
    /\ UNCHANGED <<stream, startPc, serviceVars>>
    /\ UNCHANGED detailVars

\* a lock that is handed out while it is held
LockFreeAlways(l) == TRUE

\* threading.Lock: `with self._model_lock` is entered only while nobody holds it
LockFree(l) == l = "free"

\* a worker that does not look for the file
FileMissingNever(id, fs) == FALSE

\* _transcribe_segment: if not segment.file_path.exists(): return None
FileMissing(id, fs) == segs[id].path \notin fs

\* get() returns a segment; _transcribe_segment checks that its file exists
WorkerGet ==
    /\ wPc = "get"
    /\ transcription_queue # <<>>
    /\ LET id == Head(transcription_queue)
       IN  /\ transcription_queue' = Tail(transcription_queue)
           /\ IF FileMissing(id, files)
              THEN /\ wPc' = "top"
                   /\ lastOutcome' = "missing"
                   /\ UNCHANGED wSeg
              ELSE /\ wPc' = "lock"
                   /\ wSeg' = id
                   /\ UNCHANGED lastOutcome
    /\ UNCHANGED <<boundVars, stopBuf, cfg, now, frameDue, pollDue, captureVars, segs, files,
                   lastFlush, silenceFlushes, droppedInBuf, running, appPaused,
                   stopPc, processing, t_stop_event, result_queue,
                   total_processed, engineLog, published>>
    /\ UNCHANGED <<stream, startPc, model, model_lock, callback_set, callerPc, nCalls>>
    /\ UNCHANGED detailVars

\* with self._model_lock: self._model.transcribe(...) is entered
WorkerAcquire ==
    /\ wPc = "lock"
    /\ LockFree(model_lock)
    /\ model_lock' = "worker"
    /\ wPc' = "engine"
    /\ engineLog' = Append(engineLog, wSeg)
    /\ UNCHANGED <<boundVars, stopBuf, cfg, now, frameDue, pollDue, captureVars, segs, files,
                   lastFlush, silenceFlushes, droppedInBuf, running, appPaused,
                   stopPc, processing, t_stop_event, wSeg, transcription_queue,
                   result_queue, total_processed, published>>
    /\ UNCHANGED <<stream, startPc, model, callback_set, callerPc, nCalls, lastOutcome>>
    /\ UNCHANGED detailVars

\* a worker that takes an exception of the engine for a result
EngineFailedNever(r) == FALSE

\* except Exception in _transcribe_segment: the engine raised
EngineFailed(r) == r = "raise"

\* a worker that queues every result twice
PutResultTwice(q, id) == Append(Append(q, id), id)

\* self._result_queue.put(result)
PutResult(q, id) == Append(q, id)

\* what an engine call ends with: a text, an empty text, or an exception
EngineResults == {"text", "empty", "raise"}

\* TranscriptionApp._cleanup_audio_file
CleanupAudioFile(fs, path) == fs \ {path}

\* TranscriptionApp._on_transcription_complete: an empty text is skipped, any
\* other is added to the transcripts; both paths remove the audio file
OnTranscriptionComplete(fs, path, r) ==
    IF r = "empty" THEN CleanupAudioFile(fs, path)
    ELSE CleanupAudioFile(fs, path)

\* a worker that lets an exception of the result callback end the iteration
\* before the statistics
StatsAfterCallbackSkipped(n, raises) == IF raises THEN n ELSE n + 1

\* self._total_processed += 1 after the callback's own try/except
StatsAfterCallback(n, raises) == n + 1

\* the registered callback is called inside its own try/except: if it raises,
\* the error is logged and nothing of the handler has happened
ResultCallback(fs, path, r, raises) ==
    IF raises THEN fs ELSE OnTranscriptionComplete(fs, path, r)

\* processing_time = time.time() - start_time of a result, in ticks: the
\* engine takes one tick on the segments with an even id and two on the others
ProcessingTime(seg) == 1 + (seg % 2)

\* statistics that count every result as one tick
AddProcessingTimeFlat(total, d) == total + 1

\* self._total_processing_time += result.processing_time
AddProcessingTime(total, d) == total + d

\* the engine call ends and the lock is released.  With a result: it is put
\* on the result queue, the registered callback runs, the statistics
\* (_total_processed and _total_processing_time, together) are updated.
\* With an exception: logged, _transcribe_segment returns None
WorkerEngineReturn(r) ==
    /\ wPc = "engine"
    /\ model_lock' = "free"
    /\ IF ~EngineFailed(r)
       THEN /\ result_queue' = PutResult(result_queue, wSeg)
            /\ published' = Append(published, wSeg)
            /\ files' = IF callback_set
                        THEN ResultCallback(files, segs[wSeg].path, r,
                                            "result" \in raising)
                        ELSE files
            /\ handled' = IF callback_set THEN Append(handled, wSeg)
                          ELSE handled
            /\ total_processed' =
                   StatsAfterCallback(total_processed,
                                      callback_set /\ "result" \in raising)
            /\ resultTimes' = Append(resultTimes, ProcessingTime(wSeg))
            /\ total_processing_time' =
                   AddProcessingTime(total_processing_time, ProcessingTime(wSeg))
       ELSE UNCHANGED <<result_queue, published, files, total_processed,
                        statVars, handled>>
    /\ lastOutcome' = r
    /\ wPc' = "top"
    /\ wSeg' = 0
    /\ UNCHANGED <<boundVars, stopBuf, cfg, now, frameDue, pollDue, captureVars, segs, lastFlush,
                   silenceFlushes, droppedInBuf, running, appPaused, stopPc,
                   processing, t_stop_event, transcription_queue, engineLog>>
    /\ UNCHANGED <<stream, startPc, model, callback_set, callerPc, nCalls>>
    /\ UNCHANGED <<returned, lockVars, raising, oldW, oldRec, stopCalls>>

----------------------------------------------------------------------------
(* TranscriptionApp and the dashboard *)

\* TranscriptionApp.start: `self._running = True` is set before anything is
\* started, then start_processing is called
AppStartBegin ==
    /\ ~running
    /\ stopPc = "idle"
    /\ startPc = "idle"
    /\ nStarts < MaxStarts
    /\ nStarts' = nStarts + 1
    /\ running' = TRUE
    /\ startPc' = "init"
    /\ UNCHANGED <<nPauses, stopBuf, cfg, now, frameDue, pollDue, captureVars, segs, files,
                   lastFlush, silenceFlushes, droppedInBuf, appPaused, stopPc,
                   workerVars, stream, serviceVars>>
    /\ UNCHANGED detailVars

\* initialize_model: `with self._model_lock` is entered
StartInitLock ==
    /\ startPc = "init"
    /\ LockFree(model_lock)
    /\ model_lock' = "main"
    /\ startPc' = "loading"
    /\ UNCHANGED <<boundVars, stopBuf, cfg, now, frameDue, pollDue, captureVars, segs, files,
                   lastFlush, silenceFlushes, droppedInBuf, running, appPaused,
                   stopPc, workerVars, stream, model, callback_set, callerPc,
                   nCalls, lastOutcome>>
    /\ UNCHANGED detailVars

\* TranscriptionService.start_processing after initialize_model returned True
\* (the model was loaded before, or is loaded now): the worker is started
\* unless `_processing` is set.  A worker of an earlier start that is still
\* alive is not looked for: it goes on as the abandoned worker
start_processing ==
    /\ model' = TRUE
    /\ model_lock' = "free"
    /\ IF processing
       THEN UNCHANGED <<processing, t_stop_event, wPc, oldW>>
       ELSE /\ processing' = TRUE
            /\ t_stop_event' = FALSE
            /\ wPc' = "top"
            /\ oldW' = IF wPc \in {"none", "done"} THEN oldW ELSE wPc

\* a start that goes on to start the capture after the backend failed
AppStartFailPartial ==
    /\ startPc = "loading"
    /\ running
    /\ ~model
    /\ model_lock' = "free"
    /\ startPc' = "idle"
    /\ recording' = TRUE
    /\ recPc' = "open"
    /\ UNCHANGED <<boundVars, stopBuf, cfg, now, frameDue, pollDue, paused, stop_event,
                   segment_start_time, audio_buffer, segment_queue, silence_start,
                   last_audio_time, cbPc, cbFrame, segs, files, lastFlush,
                   silenceFlushes, droppedInBuf, running, appPaused, stopPc,
                   workerVars, stream, model, callback_set, callerPc, nCalls,
                   lastOutcome>>
    /\ UNCHANGED detailVars

\* TranscriptionApp.start, the model is available: start_processing,
\* start_recording
AppStart ==
    /\ startPc = "loading"
    /\ running
    /\ startPc' = "idle"
    /\ start_processing
    /\ IF recording
       THEN UNCHANGED <<recording, paused, stop_event, recPc>>
       ELSE /\ recording' = TRUE
            /\ paused' = FALSE
            /\ stop_event' = FALSE
            /\ recPc' = "open"
    /\ UNCHANGED <<boundVars, stopBuf, cfg, now, frameDue, pollDue, segment_start_time,
                   audio_buffer, segment_queue, silence_start, last_audio_time,
                   cbPc, cbFrame, segs, files, lastFlush, silenceFlushes,
                   droppedInBuf, running, appPaused, stopPc, wSeg,
                   transcription_queue, result_queue, total_processed, engineLog,
                   published, stream, callback_set, callerPc, nCalls, lastOutcome>>
    /\ UNCHANGED <<returned, lockVars, statVars, handled, raising, oldRec,
                   stopCalls>>

\* TranscriptionApp.start, initialize_model returned False: start_processing
\* returns False, `self._running = False`, start returns False
AppStartFail ==
    /\ startPc = "loading"
    /\ running
    /\ ~model
    /\ model_lock' = "free"
    /\ running' = FALSE
    /\ startPc' = "idle"
    /\ UNCHANGED <<boundVars, stopBuf, cfg, now, frameDue, pollDue, captureVars, segs, files,
                   lastFlush, silenceFlushes, droppedInBuf, appPaused, stopPc,
                   workerVars, stream, model, callback_set, callerPc, nCalls,
                   lastOutcome>>
    /\ UNCHANGED detailVars

\* a pause that also restarts the silence timer
pause_recording_resets ==
    /\ paused' = TRUE
    /\ silence_start' = None
    /\ UNCHANGED <<recording, stop_event, recPc, segment_start_time, audio_buffer,
                   segment_queue, last_audio_time, cbPc, cbFrame>>

\* AudioCapture.pause_recording
pause_recording ==
    /\ paused' = TRUE
    /\ UNCHANGED <<recording, stop_event, recPc, segment_start_time, audio_buffer,
                   segment_queue, silence_start, last_audio_time, cbPc, cbFrame>>

\* AudioCapture.resume_recording
resume_recording ==
    /\ paused' = FALSE
    /\ UNCHANGED <<recording, stop_event, recPc, segment_start_time, audio_buffer,
                   segment_queue, silence_start, last_audio_time, cbPc, cbFrame>>

\* TranscriptionApp.pause
AppPause ==
    /\ ~appPaused \/ ~paused
    /\ nPauses < MaxPauses
    /\ nPauses' = nPauses + 1
    /\ UNCHANGED <<nStarts, stopBuf>>
    /\ appPaused' = TRUE
    /\ pause_recording
    /\ UNCHANGED <<cfg, now, frameDue, pollDue, segs, files, lastFlush,
                   silenceFlushes, droppedInBuf, running, stopPc, workerVars>>
    /\ UNCHANGED <<stream, startPc, serviceVars>>
    /\ UNCHANGED detailVars

\* TranscriptionApp.resume
AppResume ==
    /\ appPaused \/ paused
    /\ appPaused' = FALSE
    /\ resume_recording
    /\ UNCHANGED <<boundVars, stopBuf, cfg, now, frameDue, pollDue, segs, files, lastFlush,
                   silenceFlushes, droppedInBuf, running, stopPc, workerVars>>
    /\ UNCHANGED <<stream, startPc, serviceVars>>
    /\ UNCHANGED detailVars

\* WebUI._force_transcribe: get_completed_segments drains the capture-side
\* queue and every drained segment is passed to queue_audio_segment
RECURSIVE QueueAll(_, _, _)
QueueAll(q, ids, fs) ==
    IF ids = <<>> THEN q
    ELSE QueueAll(QueueAudioSegment(q, Head(ids), segs[Head(ids)].path, fs),
                  Tail(ids), fs)

\* AudioCapture.get_completed_segments: every queued segment is taken off
\* the queue, in queue order, and returned
GetCompletedSegments(q, ret) == ret \o q

ForceTranscribe ==
    /\ running
    /\ startPc = "idle"
    /\ segment_queue # <<>>
    /\ returned' = GetCompletedSegments(segment_queue, returned)
    /\ transcription_queue' = QueueAll(transcription_queue, segment_queue, files)
    /\ segment_queue' = <<>>
    /\ UNCHANGED <<boundVars, stopBuf, cfg, now, frameDue, pollDue, recording, paused, stop_event,
                   recPc, segment_start_time, audio_buffer, silence_start,
                   last_audio_time, cbPc, cbFrame, segs, files, lastFlush,
                   silenceFlushes, droppedInBuf, running, appPaused, stopPc,
                   processing, t_stop_event, wPc, wSeg, result_queue,
                   total_processed, engineLog, published>>
    /\ UNCHANGED <<stream, startPc, serviceVars>>
    /\ UNCHANGED <<lockVars, statVars, extVars>>

\* TranscriptionApp.stop up to the join of the control thread:
\* stop_recording sets the flags and the stop event
AppStopBegin ==
    /\ running
    /\ stopPc = "idle"
    /\ startPc = "idle"
    /\ running' = FALSE
    /\ IF recording
       THEN /\ recording' = FALSE
            /\ stop_event' = TRUE
            /\ stopPc' = "joinRec"
            /\ UNCHANGED <<processing, t_stop_event>>
       ELSE /\ UNCHANGED <<recording, stop_event>>
            /\ IF processing
               THEN /\ processing' = FALSE
                    /\ t_stop_event' = TRUE
                    /\ stopPc' = "joinWorker"
               ELSE /\ stopPc' = "joinWorker"
                    /\ UNCHANGED <<processing, t_stop_event>>
    /\ stopBuf' = AudioData(audio_buffer)
    /\ UNCHANGED <<boundVars, cfg, now, frameDue, pollDue, paused, recPc, segment_start_time,
                   audio_buffer, segment_queue, silence_start, last_audio_time,
                   cbPc, cbFrame, segs, files, lastFlush, silenceFlushes,
                   droppedInBuf, appPaused, wPc, wSeg, transcription_queue,
                   result_queue, total_processed, engineLog, published>>
    /\ UNCHANGED <<stream, startPc, serviceVars>>
    /\ UNCHANGED detailVars

\* the control thread has ended: stop_recording saves the remaining buffer and
\* _cleanup_resources clears buffer and queue; stop_processing signals the worker
AppStopRecorderJoined(ok) ==
    /\ stopPc = "joinRec"
    /\ recPc \in {"none", "done"}
    /\ SaveBuffer("stop", ok, TRUE)
    /\ UNCHANGED <<boundVars, stopBuf, cfg, now, frameDue, pollDue, recording, paused, stop_event,
                   recPc, segment_start_time, silence_start, last_audio_time,
                   cbPc, cbFrame, running, appPaused, wPc, wSeg, result_queue,
                   total_processed, engineLog, published>>
    /\ stopPc' = "joinWorker"
    /\ IF processing
       THEN /\ processing' = FALSE
            /\ t_stop_event' = TRUE
       ELSE UNCHANGED <<processing, t_stop_event>>
    /\ UNCHANGED <<stream, startPc, serviceVars>>
    /\ UNCHANGED <<returned, lockVars, statVars, extVars>>

\* _process_remaining_transcripts: every result still on the result queue is
\* handed to _on_transcription_complete, which removes its audio file
RECURSIVE CleanupAll(_, _)
CleanupAll(fs, ids) ==
    IF ids = <<>> THEN fs
    ELSE CleanupAll(CleanupAudioFile(fs, segs[Head(ids)].path), Tail(ids))

\* the worker has ended: stop() drains the result queue
AppStopWorkerJoined ==
    /\ stopPc = "joinWorker"
    /\ wPc \in {"none", "done"}
    /\ files' = CleanupAll(files, result_queue)
    /\ handled' = handled \o result_queue
    /\ result_queue' = <<>>
    /\ stopPc' = "idle"
    /\ UNCHANGED <<boundVars, stopBuf, cfg, now, frameDue, pollDue, captureVars, segs, lastFlush,
                   silenceFlushes, droppedInBuf, running, appPaused, processing,
                   t_stop_event, wPc, wSeg, transcription_queue, total_processed,
                   engineLog, published, nStarts, nPauses, stopBuf>>
    /\ UNCHANGED <<stream, startPc, serviceVars>>
    /\ UNCHANGED <<returned, lockVars, statVars, raising, oldW, oldRec, stopCalls>>

----------------------------------------------------------------------------
Next ==
    \/ AppStartBegin
    \/ StartInitLock
    \/ AppStart
    \/ AppStartFail
    \/ AppPause
    \/ AppResume
    \/ ForceTranscribe
    \/ AppStopBegin
    \/ \E ok \in BOOLEAN : AppStopRecorderJoined(ok)
    \/ AppStopWorkerJoined
    \/ RecordLoopOpen
    \/ RecordLoopOpenFail
    \/ RecordLoopTest
    \/ \E ok \in BOOLEAN : RecordLoopPoll(ok)
    \/ RecordLoopExit
    \/ \E lvl \in Levels : AudioCallbackEnter(lvl)
    \/ AudioCallbackAppend
    \/ AudioCallbackScore
    \/ WorkerCheckStop
    \/ WorkerGetTimeout
    \/ WorkerGet
    \/ WorkerAcquire
    \/ \E r \in EngineResults : WorkerEngineReturn(r)
    \/ Tick(MaxTimeApp)

Spec == Init /\ [][Next]_vars

\* the capture side alone: the worker, the result handling and the dashboard
\* never write a variable of AudioCapture
NextCapture ==
    \/ AppStartBegin
    \/ StartInitLock
    \/ AppStart
    \/ AppStartFail
    \/ AppPause
    \/ AppResume
    \/ AppStopBegin
    \/ \E ok \in BOOLEAN : AppStopRecorderJoined(ok)
    \/ RecordLoopOpen
    \/ RecordLoopOpenFail
    \/ RecordLoopTest
    \/ \E ok \in BOOLEAN : RecordLoopPoll(ok)
    \/ RecordLoopExit
    \/ \E lvl \in Levels : AudioCallbackEnter(lvl)
    \/ AudioCallbackAppend
    \/ AudioCallbackScore
    \/ Tick(MaxTime)

SpecCapture == Init /\ [][NextCapture]_vars

----------------------------------------------------------------------------
(* The content check on its own: a buffer is put together sample by sample   *)
(* on a constructed AudioCapture and _save_current_buffer is called on it,   *)
(* as the repository's tests call the methods of an idle object.  Two        *)
(* samples per tick make a 100 ms sub-chunk two samples long.                *)

ContentLevels == {0, 3, 10}

ContentConfig ==
    [sample_rate |-> 2 * TicksPerSecond,
     chunk_duration |-> ChunkDuration,
     silence_threshold |-> 4,
     silence_duration |-> SilenceDuration,
     min_audio_duration |-> 1,
     noise_gate_threshold |-> 3,
     channels |-> 1]

InitContent == InitWith(ContentConfig)

FeedSample(lvl) ==
    /\ recPc = "none"
    /\ lastFlush.id = 0
    /\ Len(audio_buffer) < MaxContentLen
    /\ lvl # 0 =>
          Cardinality({i \in 1..Len(audio_buffer) : audio_buffer[i].lvl # 0}) < MaxLoud
    /\ audio_buffer' = Append(audio_buffer, [lvl |-> lvl, pz |-> FALSE])
    /\ UNCHANGED <<boundVars, stopBuf, cfg, now, frameDue, pollDue, recording, paused,
                   stop_event, recPc, segment_start_time, segment_queue,
                   silence_start, last_audio_time, cbPc, cbFrame, segs, files,
                   lastFlush, silenceFlushes, droppedInBuf, running, appPaused,
                   stopPc, workerVars>>
    /\ UNCHANGED <<stream, startPc, serviceVars>>
    /\ UNCHANGED detailVars

FlushContent(ok) ==
    /\ recPc = "none"
    /\ SaveCurrentBuffer("direct", ok)
    /\ UNCHANGED <<boundVars, stopBuf, cfg, now, frameDue, pollDue, recording, paused,
                   stop_event, recPc, segment_start_time, silence_start,
                   last_audio_time, cbPc, cbFrame, running, appPaused, stopPc,
                   processing, t_stop_event, wPc, wSeg, result_queue,
                   total_processed, engineLog, published>>
    /\ UNCHANGED <<stream, startPc, serviceVars>>
    /\ UNCHANGED <<returned, lockVars, statVars, extVars>>

NextContent ==
    \/ \E lvl \in ContentLevels : FeedSample(lvl)
    \/ \E ok \in BOOLEAN : FlushContent(ok)

SpecContent == InitContent /\ [][NextContent]_vars

----------------------------------------------------------------------------
(* Capture with frames around the silence threshold: silent, exactly at      *)
(* the threshold (0.02), and just above it (0.025).                           *)

ScoreLevels == {0, 4, 5}

NextLevels ==
    \/ AppStartBegin
    \/ StartInitLock
    \/ AppStart
    \/ RecordLoopOpen
    \/ RecordLoopTest
    \/ RecordLoopPoll(TRUE)
    \/ \E lvl \in ScoreLevels : AudioCallbackEnter(lvl)
    \/ AudioCallbackAppend
    \/ AudioCallbackScore
    \/ Tick(MaxTimeLevels)

SpecLevels == Init /\ [][NextLevels]_vars

----------------------------------------------------------------------------
(* The flush step by step, with the buffer lock.  _save_current_buffer       *)
(* enters `with self._buffer_lock`, concatenates, clears, leaves the lock    *)
(* and then checks and writes; the audio callback appends under the same     *)
(* lock.  The loop body is the chunk test with its save, then the silence    *)
(* test with its save; stop_recording saves after the join and cleans up.    *)
(* recPc is "save1" and "body2", "save2" in the two halves of the body;      *)
(* flush.pc is "acquire", "concat", "clear", "write".                        *)

\* what a step of _save_current_buffer or of the loop body never writes
flushFrame == <<cfg, now, frameDue, recording, paused, stop_event, silence_start,
                last_audio_time, cbPc, cbFrame, running, appPaused, wPc, wSeg,
                result_queue, total_processed, engineLog, published, boundVars,
                stream, startPc, serviceVars, stopBuf, returned, statVars,
                extVars>>
\* what the caller of _save_current_buffer does when it returns
returnVars == <<recPc, segment_start_time, pollDue, stopPc, processing,
                t_stop_event>>
\* what the part of _save_current_buffer after the lock writes
writeVars == <<segs, files, segment_queue, transcription_queue, lastFlush,
               silenceFlushes, droppedInBuf>>

\* a flush that keeps the buffer lock until it returns
LockAfterTakeHeld(l) == l

\* the end of the `with self._buffer_lock` block of _save_current_buffer
LockAfterTake(l) == "free"

\* current_time - segment_start_time >= chunk_duration: _save_current_buffer
LoopChunkTest ==
    /\ recPc = "body"
    /\ flush.pc = "idle"
    /\ IF ChunkElapsed(now, segment_start_time, cfg)
       THEN /\ recPc' = "save1"
            /\ flush' = [pc |-> "acquire", trigger |-> "chunk", data |-> <<>>]
       ELSE /\ recPc' = "body2"
            /\ UNCHANGED flush
    /\ UNCHANGED <<flushFrame, writeVars, audio_buffer, buffer_lock,
                   segment_start_time, pollDue, stopPc, processing,
                   t_stop_event>>

\* if self._should_segment_on_silence(): _save_current_buffer; otherwise the
\* iteration ends with time.sleep(0.1)
LoopSilenceTest ==
    /\ recPc = "body2"
    /\ flush.pc = "idle"
    /\ IF ShouldSegmentOnSilence(silence_start, last_audio_time, audio_buffer,
                                 now, cfg)
       THEN /\ recPc' = "save2"
            /\ flush' = [pc |-> "acquire", trigger |-> "silence", data |-> <<>>]
            /\ UNCHANGED pollDue
       ELSE /\ recPc' = "loop"
            /\ pollDue' = FALSE
            /\ UNCHANGED flush
    /\ UNCHANGED <<flushFrame, writeVars, audio_buffer, buffer_lock,
                   segment_start_time, stopPc, processing, t_stop_event>>

\* stop_recording after the join of the control thread: _save_current_buffer
StopFlushBegin ==
    /\ stopPc = "joinRec"
    /\ recPc \in {"none", "done"}
    /\ flush.pc = "idle"
    /\ flush' = [pc |-> "acquire", trigger |-> "stop", data |-> <<>>]
    /\ UNCHANGED <<flushFrame, writeVars, returnVars, audio_buffer, buffer_lock>>

\* _save_current_buffer returns: the loop sets segment_start_time and goes
\* on (after the second save it sleeps); stop_recording runs
\* _cleanup_resources and stop() goes on to stop_processing
FlushReturn(trigger) ==
    /\ flush' = NoFlush
    /\ buffer_lock' = "free"
    /\ IF trigger = "chunk"
       THEN /\ recPc' = "body2"
            /\ segment_start_time' = now
            /\ UNCHANGED <<pollDue, stopPc, processing, t_stop_event>>
       ELSE IF trigger = "silence"
       THEN /\ recPc' = "loop"
            /\ segment_start_time' = now
            /\ pollDue' = FALSE
            /\ UNCHANGED <<stopPc, processing, t_stop_event>>
       ELSE /\ stopPc' = "joinWorker"
            /\ processing' = FALSE
            /\ t_stop_event' = (t_stop_event \/ processing)
            /\ UNCHANGED <<recPc, segment_start_time, pollDue>>

\* with self._buffer_lock: the lock is taken
FlushAcquire ==
    /\ flush.pc = "acquire"
    /\ BufferLockFree(buffer_lock)
    /\ buffer_lock' = "flush"
    /\ flush' = [flush EXCEPT !.pc = "concat"]
    /\ UNCHANGED <<flushFrame, writeVars, returnVars, audio_buffer>>

\* if not self._audio_buffer: return; audio_data = np.concatenate(...)
FlushConcat ==
    /\ flush.pc = "concat"
    /\ IF audio_buffer = <<>>
       THEN /\ FlushReturn(flush.trigger)
            /\ segment_queue' = QueueAfter(segment_queue, flush.trigger = "stop")
       ELSE /\ flush' = [flush EXCEPT !.pc = "clear", !.data = audio_buffer]
            /\ UNCHANGED <<buffer_lock, returnVars, segment_queue>>
    /\ UNCHANGED <<flushFrame, audio_buffer, segs, files, transcription_queue,
                   lastFlush, silenceFlushes, droppedInBuf>>

\* self._audio_buffer.clear(), and the lock is left
FlushClear ==
    /\ flush.pc = "clear"
    /\ audio_buffer' = <<>>
    /\ buffer_lock' = LockAfterTake(buffer_lock)
    /\ flush' = [flush EXCEPT !.pc = "write"]
    /\ UNCHANGED <<flushFrame, writeVars, returnVars>>

\* the checks, the WAV file, the queue and the segment callback; after the
\* save of stop_recording, _cleanup_resources clears buffer and queue
FlushWrite(ok) ==
    /\ flush.pc = "write"
    /\ WriteSegment(flush.data, flush.trigger, ok, flush.trigger = "stop")
    /\ FlushReturn(flush.trigger)
    /\ audio_buffer' = IF flush.trigger = "stop" THEN <<>> ELSE audio_buffer
    /\ UNCHANGED flushFrame

NextBuffer ==
    \/ AppStartBegin
    \/ StartInitLock
    \/ AppStart
    \/ AppStopBegin
    \/ RecordLoopOpen
    \/ RecordLoopTest
    \/ LoopChunkTest
    \/ LoopSilenceTest
    \/ RecordLoopExit
    \/ StopFlushBegin
    \/ FlushAcquire
    \/ FlushConcat
    \/ FlushClear
    \/ \E ok \in BOOLEAN : FlushWrite(ok)
    \/ \E lvl \in Levels : AudioCallbackEnter(lvl)
    \/ AudioCallbackAppend
    \/ AudioCallbackScore
    \/ Tick(MaxTimeBuffer)

SpecBuffer == Init /\ [][NextBuffer]_vars

----------------------------------------------------------------------------
(* The application from start to stop with the scheduling of its threads:    *)
(* a thread that can take a step eventually takes one.  The calls of start   *)
(* and stop come from the user and are not forced.                           *)

\* the worker thread
WorkerSteps ==
    \/ WorkerCheckStop
    \/ WorkerGetTimeout
    \/ WorkerGet
    \/ WorkerAcquire
    \/ \E r \in EngineResults : WorkerEngineReturn(r)

\* the control thread and the audio thread
CaptureSteps ==
    \/ RecordLoopOpen
    \/ RecordLoopTest
    \/ \E ok \in BOOLEAN : RecordLoopPoll(ok)
    \/ RecordLoopExit
    \/ \E lvl \in Levels : AudioCallbackEnter(lvl)
    \/ AudioCallbackAppend
    \/ AudioCallbackScore

\* the thread inside start() or stop(), once the call has begun
MainSteps ==
    \/ StartInitLock
    \/ AppStart
    \/ \E ok \in BOOLEAN : AppStopRecorderJoined(ok)
    \/ AppStopWorkerJoined

NextLive ==
    \/ AppStartBegin
    \/ AppStopBegin
    \/ MainSteps
    \/ CaptureSteps
    \/ WorkerSteps
    \/ Tick(MaxTimeLive)

SpecLive ==
    /\ Init
    /\ [][NextLive]_vars
    /\ WF_vars(WorkerSteps)
    /\ WF_vars(CaptureSteps)
    /\ WF_vars(MainSteps)

----------------------------------------------------------------------------
(* The application with callbacks that raise: before the start,              *)
(* set_segment_callback and set_transcription_callback register handlers     *)
(* that raise on every call; the dashboard's forced transcription moves      *)
(* the segments on.                                                          *)

\* the callbacks that can be replaced by one that raises
RaisingCallbacks == {"segment", "result"}

\* set_segment_callback / set_transcription_callback with raising handlers
RegisterRaising(r) ==
    /\ ~running
    /\ nStarts = 0
    /\ raising = {}
    /\ r # {}
    /\ raising' = r
    /\ UNCHANGED <<boundVars, stopBuf, cfg, now, frameDue, pollDue, captureVars,
                   segs, files, lastFlush, silenceFlushes, droppedInBuf, running,
                   appPaused, stopPc, workerVars, stream, startPc, serviceVars>>
    /\ UNCHANGED <<returned, lockVars, statVars, handled, oldW, oldRec,
                   stopCalls>>

NextFaults ==
    \/ \E r \in SUBSET RaisingCallbacks : RegisterRaising(r)
    \/ AppStartBegin
    \/ StartInitLock
    \/ AppStart
    \/ ForceTranscribe
    \/ AppStopBegin
    \/ \E ok \in BOOLEAN : AppStopRecorderJoined(ok)
    \/ AppStopWorkerJoined
    \/ RecordLoopOpen
    \/ RecordLoopTest
    \/ \E ok \in BOOLEAN : RecordLoopPoll(ok)
    \/ RecordLoopExit
    \/ \E lvl \in Levels : AudioCallbackEnter(lvl)
    \/ AudioCallbackAppend
    \/ AudioCallbackScore
    \/ WorkerCheckStop
    \/ WorkerGetTimeout
    \/ WorkerGet
    \/ WorkerAcquire
    \/ \E r \in EngineResults : WorkerEngineReturn(r)
    \/ Tick(MaxTimeFaults)

SpecFaults == Init /\ [][NextFaults]_vars

----------------------------------------------------------------------------
(* Capture with a minimum duration below one second: min_audio_duration is   *)
(* one tick (0.5 s), so two flushes of one second can both pass the          *)
(* duration check.                                                           *)

NamesConfig == [DefaultConfig EXCEPT !.min_audio_duration = 1]

InitNames == InitWith(NamesConfig)

NextNames ==
    \/ AppStartBegin
    \/ StartInitLock
    \/ AppStart
    \/ AppStopBegin
    \/ \E ok \in BOOLEAN : AppStopRecorderJoined(ok)
    \/ RecordLoopOpen
    \/ RecordLoopTest
    \/ \E ok \in BOOLEAN : RecordLoopPoll(ok)
    \/ RecordLoopExit
    \/ \E lvl \in Levels : AudioCallbackEnter(lvl)
    \/ AudioCallbackAppend
    \/ AudioCallbackScore
    \/ Tick(MaxTimeNames)

SpecNames == InitNames /\ [][NextNames]_vars

----------------------------------------------------------------------------
(* The encoding on its own: _audio_callback is called on a constructed       *)
(* AudioCapture with frames of one or two channels whose samples lie         *)
(* between -1.5 and 1.5, and _save_current_buffer is called on the buffer.   *)

EncodeLevels == {-300, -200, -100, 0, 100, 200, 300}
ChannelCounts == {1, 2}

EncodeConfig(ch) ==
    [sample_rate |-> TicksPerSecond,
     chunk_duration |-> ChunkDuration,
     silence_threshold |-> 4,
     silence_duration |-> SilenceDuration,
     min_audio_duration |-> 1,
     noise_gate_threshold |-> 3,
     channels |-> ch]

InitEncode == \E ch \in ChannelCounts : InitWith(EncodeConfig(ch))

\* one call of _audio_callback(indata): down-mix, append, score
FeedFrame(chs) ==
    /\ recPc = "none"
    /\ lastFlush.id = 0
    /\ Len(audio_buffer) < MaxEncodeLen
    /\ LET frame == [lvl |-> DownMix(chs), pz |-> FALSE]
           r == UpdateSilenceDetection(frame, silence_start, last_audio_time,
                                       now, cfg)
       IN  /\ audio_buffer' = Append(audio_buffer, frame)
           /\ silence_start' = r[1]
           /\ last_audio_time' = r[2]
    /\ UNCHANGED <<boundVars, stopBuf, cfg, now, frameDue, pollDue, recording, paused,
                   stop_event, recPc, segment_start_time, segment_queue, cbPc,
                   cbFrame, segs, files, lastFlush, silenceFlushes,
                   droppedInBuf, running, appPaused, stopPc, workerVars,
                   stream, startPc, serviceVars, detailVars>>

NextEncode ==
    \/ \E chs \in [1..cfg.channels -> EncodeLevels] : FeedFrame(chs)
    \/ \E ok \in BOOLEAN : FlushContent(ok)

SpecEncode == InitEncode /\ [][NextEncode]_vars

----------------------------------------------------------------------------
(* The scenario of the specification: silence_duration 5 s and               *)
(* min_audio_duration 3 s; the source plays 4 s of a 0.05-RMS tone and then  *)
(* 6 s of zero-amplitude silence.                                            *)

ScenarioConfig ==
    [sample_rate |-> TicksPerSecond,
     chunk_duration |-> 300 * TicksPerSecond,
     silence_threshold |-> 4,
     silence_duration |-> 5 * TicksPerSecond,
     min_audio_duration |-> 3 * TicksPerSecond,
     noise_gate_threshold |-> 3,
     channels |-> 1]

ScenarioAudio == 4 * TicksPerSecond
ScenarioEnd == 10 * TicksPerSecond

\* the frame the source delivers in tick t
ScenarioLevel(t) == IF t <= ScenarioAudio THEN 10 ELSE 0

InitScenario == InitWith(ScenarioConfig)

NextScenario ==
    \/ AppStartBegin
    \/ StartInitLock
    \/ AppStart
    \/ RecordLoopOpen
    \/ RecordLoopTest
    \/ RecordLoopPoll(TRUE)
    \/ AudioCallbackEnter(ScenarioLevel(now))
    \/ AudioCallbackAppend
    \/ AudioCallbackScore
    \/ Tick(ScenarioEnd)

SpecScenario == InitScenario /\ [][NextScenario]_vars

----------------------------------------------------------------------------
(* The TranscriptionService on its own, as src/src/cli.py builds it: no      *)
(* callback is registered at construction, audio files are pending in the    *)
(* audio directory, a client queues segments and calls transcribe_file       *)
(* while the worker runs.                                                     *)

\* the audio files found pending, as segments
PendingSegs ==
    [i \in 1..MaxPending |->
        [path |-> i, n |-> TicksPerSecond + 1, end |-> 0, np |-> 0]]

InitService ==
    /\ InitCore(DefaultConfig)
    /\ segs = PendingSegs
    /\ files = {PendingSegs[i].path : i \in 1..MaxPending}
    /\ callback_set = FALSE

\* set_transcription_callback, with the handler of TranscriptionApp
SetTranscriptionCallback ==
    /\ ~callback_set
    /\ callback_set' = TRUE
    /\ UNCHANGED <<boundVars, stopBuf, cfg, now, frameDue, pollDue, captureVars, segs,
                   files, lastFlush, silenceFlushes, droppedInBuf, running,
                   appPaused, stopPc, workerVars, stream, startPc, model,
                   model_lock, callerPc, nCalls, lastOutcome>>
    /\ UNCHANGED detailVars

\* a call of start_processing begins (the previous worker, if any, has ended)
ServiceStartBegin ==
    /\ ~running
    /\ startPc = "idle"
    /\ processing \/ wPc \in {"none", "done"}
    /\ nStarts < MaxStarts
    /\ nStarts' = nStarts + 1
    /\ startPc' = "init"
    /\ UNCHANGED <<nPauses, stopBuf, cfg, now, frameDue, pollDue, captureVars, segs,
                   files, lastFlush, silenceFlushes, droppedInBuf, running,
                   appPaused, stopPc, workerVars, stream, serviceVars>>
    /\ UNCHANGED detailVars

\* start_processing, initialize_model returned True
ServiceStart ==
    /\ startPc = "loading"
    /\ ~running
    /\ startPc' = "idle"
    /\ start_processing
    /\ UNCHANGED <<boundVars, stopBuf, cfg, now, frameDue, pollDue, captureVars, segs,
                   files, lastFlush, silenceFlushes, droppedInBuf, running,
                   appPaused, stopPc, wSeg, transcription_queue, result_queue,
                   total_processed, engineLog, published, stream, callback_set,
                   callerPc, nCalls, lastOutcome>>
    /\ UNCHANGED <<returned, lockVars, statVars, handled, raising, oldRec,
                   stopCalls>>

\* start_processing, initialize_model returned False
ServiceStartFail ==
    /\ startPc = "loading"
    /\ ~running
    /\ ~model
    /\ model_lock' = "free"
    /\ startPc' = "idle"
    /\ UNCHANGED <<boundVars, stopBuf, cfg, now, frameDue, pollDue, captureVars, segs,
                   files, lastFlush, silenceFlushes, droppedInBuf, running,
                   appPaused, stopPc, workerVars, stream, model, callback_set,
                   callerPc, nCalls, lastOutcome>>
    /\ UNCHANGED detailVars

\* stop_processing: the flag is cleared and the stop event is set
ServiceStop ==
    /\ processing
    /\ startPc = "idle"
    /\ processing' = FALSE
    /\ t_stop_event' = TRUE
    /\ UNCHANGED <<boundVars, stopBuf, cfg, now, frameDue, pollDue, captureVars, segs,
                   files, lastFlush, silenceFlushes, droppedInBuf, running,
                   appPaused, stopPc, wPc, wSeg, transcription_queue,
                   result_queue, total_processed, engineLog, published, stream,
                   startPc, serviceVars>>
    /\ UNCHANGED detailVars

\* a client calls queue_audio_segment with one of the segments
ClientQueue(id) ==
    /\ Len(transcription_queue) + Len(engineLog) < MaxQueued
    /\ transcription_queue' =
           QueueAudioSegment(transcription_queue, id, segs[id].path, files)
    /\ transcription_queue' # transcription_queue
    /\ UNCHANGED <<boundVars, stopBuf, cfg, now, frameDue, pollDue, captureVars, segs,
                   files, lastFlush, silenceFlushes, droppedInBuf, running,
                   appPaused, stopPc, processing, t_stop_event, wPc, wSeg,
                   result_queue, total_processed, engineLog, published, stream,
                   startPc, serviceVars>>
    /\ UNCHANGED detailVars

\* the frame of a step of the thread that runs transcribe_file
CallerFrame ==
    UNCHANGED <<boundVars, stopBuf, cfg, now, frameDue, pollDue, captureVars, segs,
                files, lastFlush, silenceFlushes, droppedInBuf, running,
                appPaused, stopPc, workerVars, stream, startPc, callback_set,
                lastOutcome,
                detailVars>>

\* a client thread calls transcribe_file, which calls initialize_model
CallerBegin ==
    /\ callerPc = "idle"
    /\ nCalls < MaxCalls
    /\ nCalls' = nCalls + 1
    /\ callerPc' = "init"
    /\ UNCHANGED <<model, model_lock>>
    /\ CallerFrame

\* initialize_model: `with self._model_lock` is entered
CallerInitLock ==
    /\ callerPc = "init"
    /\ LockFree(model_lock)
    /\ model_lock' = "caller"
    /\ callerPc' = "loading"
    /\ UNCHANGED <<model, nCalls>>
    /\ CallerFrame

\* initialize_model returns: True if the model was or is now loaded (the
\* call goes on), False otherwise (transcribe_file returns None)
CallerInitDone(ok) ==
    /\ callerPc = "loading"
    /\ model_lock' = "free"
    /\ model' = (model \/ ok)
    /\ callerPc' = IF model' THEN "lock" ELSE "idle"
    /\ UNCHANGED nCalls
    /\ CallerFrame

\* transcribe_file: with self._model_lock: self._model.transcribe(...)
CallerAcquire ==
    /\ callerPc = "lock"
    /\ LockFree(model_lock)
    /\ model_lock' = "caller"
    /\ callerPc' = "engine"
    /\ UNCHANGED <<model, nCalls>>
    /\ CallerFrame

\* the engine call of transcribe_file ends (result or exception)
CallerReturn ==
    /\ callerPc = "engine"
    /\ model_lock' = "free"
    /\ callerPc' = "idle"
    /\ UNCHANGED <<model, nCalls>>
    /\ CallerFrame

NextService ==
    \/ SetTranscriptionCallback
    \/ ServiceStartBegin
    \/ StartInitLock
    \/ ServiceStart
    \/ ServiceStartFail
    \/ ServiceStop
    \/ \E id \in 1..MaxPending : ClientQueue(id)
    \/ CallerBegin
    \/ CallerInitLock
    \/ \E ok \in BOOLEAN : CallerInitDone(ok)
    \/ CallerAcquire
    \/ CallerReturn
    \/ WorkerCheckStop
    \/ WorkerGetTimeout
    \/ WorkerGet
    \/ WorkerAcquire
    \/ \E r \in EngineResults : WorkerEngineReturn(r)

SpecService == InitService /\ [][NextService]_vars

----------------------------------------------------------------------------
(* The TranscriptionService stopped and started again.  stop_processing      *)
(* joins the worker with a timeout of 10 s; a worker that is still inside    *)
(* the engine call then is left alive, and nothing prevents a further        *)
(* start_processing.  The abandoned worker is followed up to the test of     *)
(* its loop.                                                                 *)

\* what the calls of stop_processing and the abandoned worker never write
restartFrame == <<boundVars, stopBuf, cfg, now, frameDue, pollDue, captureVars,
                  segs, files, lastFlush, silenceFlushes, droppedInBuf, running,
                  appPaused, wPc, wSeg, transcription_queue, result_queue,
                  total_processed, engineLog, published, stream, startPc,
                  serviceVars, returned, lockVars, statVars, handled, raising,
                  oldRec>>

\* a call of start_processing begins, whatever became of an earlier worker
StartProcessingBegin ==
    /\ ~running
    /\ startPc = "idle"
    /\ stopPc = "idle"
    /\ nStarts < MaxRestarts
    /\ nStarts' = nStarts + 1
    /\ startPc' = "init"
    /\ UNCHANGED <<nPauses, stopBuf, cfg, now, frameDue, pollDue, captureVars, segs,
                   files, lastFlush, silenceFlushes, droppedInBuf, running,
                   appPaused, stopPc, workerVars, stream, serviceVars>>
    /\ UNCHANGED detailVars

\* a stop_processing that signals whether or not the service is processing
StopReturnsEarlyNever(p) == FALSE

\* stop_processing: if not self._processing: return
StopReturnsEarly(p) == ~p

\* a call of stop_processing up to the join: nothing happens unless the
\* service is processing; otherwise the flag is cleared and the event is set
StopProcessingBegin ==
    /\ ~running
    /\ startPc = "idle"
    /\ stopPc = "idle"
    /\ stopCalls.service < MaxStops
    /\ stopCalls' = [stopCalls EXCEPT !.service = @ + 1]
    /\ IF StopReturnsEarly(processing)
       THEN UNCHANGED <<processing, t_stop_event, stopPc>>
       ELSE /\ processing' = FALSE
            /\ t_stop_event' = TRUE
            /\ stopPc' = "joinWorker"
    /\ UNCHANGED <<restartFrame, oldW>>

\* self._worker_thread.join(timeout=10.0) returns, the worker has ended
StopProcessingJoined ==
    /\ ~running
    /\ stopPc = "joinWorker"
    /\ wPc \in {"none", "done"}
    /\ stopPc' = "idle"
    /\ UNCHANGED <<restartFrame, oldW, stopCalls, processing, t_stop_event>>

\* self._worker_thread.join(timeout=10.0) returns after 10 s, the worker is
\* still inside the engine call
StopProcessingTimeout ==
    /\ ~running
    /\ stopPc = "joinWorker"
    /\ wPc = "engine"
    /\ stopPc' = "idle"
    /\ UNCHANGED <<restartFrame, oldW, stopCalls, processing, t_stop_event>>

\* the abandoned worker at `while not self._stop_event.is_set()`: it ends, or
\* goes on to take segments from the queue
AbandonedCheckStop ==
    /\ oldW = "top"
    /\ oldW' = IF t_stop_event THEN "done" ELSE "get"
    /\ UNCHANGED <<restartFrame, stopCalls, processing, t_stop_event, stopPc>>

NextRestart ==
    \/ StartProcessingBegin
    \/ StartInitLock
    \/ ServiceStart
    \/ ServiceStartFail
    \/ StopProcessingBegin
    \/ StopProcessingJoined
    \/ StopProcessingTimeout
    \/ \E id \in 1..MaxPending : ClientQueue(id)
    \/ WorkerCheckStop
    \/ WorkerGetTimeout
    \/ WorkerGet
    \/ WorkerAcquire
    \/ \E r \in EngineResults : WorkerEngineReturn(r)
    \/ AbandonedCheckStop

SpecRestart == InitService /\ [][NextRestart]_vars

----------------------------------------------------------------------------
(* The AudioCapture stopped and started again, on its own.  stop_recording   *)
(* joins the control thread with a timeout of 5 s; a thread that is still    *)
(* inside the write of a flush then is left alive, stop_recording goes on    *)
(* with its own flush and cleanup, and nothing prevents a further            *)
(* start_recording.  The time-out is followed for the flush after the        *)
(* silence test, the last statement of an iteration before the sleep, and    *)
(* the abandoned thread up to the test of its loop.                          *)

\* what the calls of start_recording and stop_recording and the abandoned
\* control thread never write
recorderFrame == <<nPauses, stopBuf, cfg, now, frameDue, pollDue,
                   segment_start_time, silence_start, last_audio_time, cbPc,
                   cbFrame, running, appPaused, processing, t_stop_event, wPc,
                   wSeg, result_queue, total_processed, engineLog, published,
                   stream, startPc, serviceVars, returned, buffer_lock,
                   statVars, handled, raising, oldW>>

\* start_recording: nothing happens while `_recording` is set; otherwise the
\* flags are set, the stop event is cleared and a control thread is started.
\* A control thread of an earlier start that is still inside its flush is
\* not looked for: it goes on as the abandoned thread
StartRecording ==
    /\ stopPc = "idle"
    /\ nStarts < MaxRestarts
    /\ nStarts' = nStarts + 1
    /\ recPc \notin {"none", "done"} => (recording \/ flush.pc = "write")
    /\ IF recording
       THEN UNCHANGED <<recording, paused, stop_event, recPc, flush, oldRec>>
       ELSE /\ recording' = TRUE
            /\ paused' = FALSE
            /\ stop_event' = FALSE
            /\ recPc' = "open"
            /\ IF recPc \in {"none", "done"}
               THEN UNCHANGED <<flush, oldRec>>
               ELSE /\ oldRec' = [pc |-> "save", trigger |-> flush.trigger,
                                  data |-> flush.data]
                    /\ flush' = NoFlush
    /\ UNCHANGED <<recorderFrame, flushVars, stopPc, stopCalls>>

\* a stop_recording that goes on whether or not the capture is recording
RecorderStopReturnsEarlyNever(rec) == FALSE

\* stop_recording: if not self._recording: return
RecorderStopReturnsEarly(rec) == ~rec

\* a call of stop_recording up to the join: nothing happens unless the
\* capture is recording; otherwise the flag is cleared and the event is set
StopRecordingBegin ==
    /\ stopPc = "idle"
    /\ stopCalls.recorder < MaxStops
    /\ stopCalls' = [stopCalls EXCEPT !.recorder = @ + 1]
    /\ IF RecorderStopReturnsEarly(recording)
       THEN UNCHANGED <<recording, stop_event, stopPc>>
       ELSE /\ recording' = FALSE
            /\ stop_event' = TRUE
            /\ stopPc' = "joinRec"
    /\ UNCHANGED <<recorderFrame, flushVars, nStarts, paused, recPc, flush,
                   oldRec>>

\* the control thread has ended: stop_recording saves the remaining buffer
\* and _cleanup_resources clears buffer and queue
StopRecordingJoined(ok) ==
    /\ stopPc = "joinRec"
    /\ recPc \in {"none", "done"}
    /\ SaveBuffer("stop", ok, TRUE)
    /\ stopPc' = "idle"
    /\ UNCHANGED <<recorderFrame, nStarts, recording, paused, stop_event, recPc,
                   flush, oldRec, stopCalls>>

\* self._record_thread.join(timeout=5.0) returns after 5 s, the control
\* thread is still writing the segment of its flush: stop_recording saves
\* what is in the buffer and cleans up beside it
StopRecordingTimeout(ok) ==
    /\ stopPc = "joinRec"
    /\ recPc = "save2"
    /\ flush.pc = "write"
    /\ SaveBuffer("stop", ok, TRUE)
    /\ stopPc' = "idle"
    /\ UNCHANGED <<recorderFrame, nStarts, recording, paused, stop_event, recPc,
                   flush, oldRec, stopCalls>>

\* the abandoned control thread ends its flush: checks, file, queue, callback
AbandonedFlushWrite(ok) ==
    /\ oldRec.pc = "save"
    /\ WriteSegment(oldRec.data, oldRec.trigger, ok, FALSE)
    /\ oldRec' = [pc |-> "loop", trigger |-> "none", data |-> <<>>]
    /\ UNCHANGED <<recorderFrame, audio_buffer, nStarts, recording, paused,
                   stop_event, recPc, flush, stopPc, stopCalls>>

\* the abandoned control thread at `while not self._stop_event.is_set()`: it
\* ends, or goes on polling and flushing
AbandonedLoopTest ==
    /\ oldRec.pc = "loop"
    /\ oldRec' = [oldRec EXCEPT !.pc = IF stop_event THEN "done" ELSE "body"]
    /\ UNCHANGED <<recorderFrame, flushVars, nStarts, recording, paused,
                   stop_event, recPc, flush, stopPc, stopCalls>>

NextRecorder ==
    \/ StartRecording
    \/ StopRecordingBegin
    \/ \E ok \in BOOLEAN : StopRecordingJoined(ok)
    \/ \E ok \in BOOLEAN : StopRecordingTimeout(ok)
    \/ RecordLoopOpen
    \/ RecordLoopTest
    \/ LoopChunkTest
    \/ LoopSilenceTest
    \/ RecordLoopExit
    \/ FlushAcquire
    \/ FlushConcat
    \/ FlushClear
    \/ \E ok \in BOOLEAN : FlushWrite(ok)
    \/ \E lvl \in Levels : AudioCallbackEnter(lvl)
    \/ AudioCallbackAppend
    \/ AudioCallbackScore
    \/ \E ok \in BOOLEAN : AbandonedFlushWrite(ok)
    \/ AbandonedLoopTest
    \/ Tick(MaxTimeRecorder)

SpecRecorder == Init /\ [][NextRecorder]_vars

----------------------------------------------------------------------------
(* Both components driven through their own start and stop methods, each     *)
(* stop possibly called again on a component that is not running.  The       *)
(* joins of the stops are followed to the end of the threads.                *)

NextStops ==
    \/ StartRecording
    \/ StopRecordingBegin
    \/ \E ok \in BOOLEAN : StopRecordingJoined(ok)
    \/ RecordLoopOpen
    \/ RecordLoopTest
    \/ \E ok \in BOOLEAN : RecordLoopPoll(ok)
    \/ RecordLoopExit
    \/ \E lvl \in Levels : AudioCallbackEnter(lvl)
    \/ AudioCallbackAppend
    \/ AudioCallbackScore
    \/ Tick(MaxTimeStops)
    \/ StartProcessingBegin
    \/ StartInitLock
    \/ ServiceStart
    \/ StopProcessingBegin
    \/ StopProcessingJoined
    \/ WorkerCheckStop
    \/ WorkerGetTimeout
    \/ WorkerGet
    \/ WorkerAcquire
    \/ \E r \in EngineResults : WorkerEngineReturn(r)

SpecStops == Init /\ [][NextStops]_vars

----------------------------------------------------------------------------
(* Claims *)

NonDecreasing(s) == \A i, j \in 1..Len(s) : i < j => s[i] <= s[j]
Occurrences(s, x) == Cardinality({i \in 1..Len(s) : s[i] = x})

\* C1: segments reach the engine in the order in which they were flushed, and
\* the results are published in that same capture order: a result of a
\* later-flushed segment never precedes the result of an earlier-flushed one
\* (segment ids number the segments in flush order)
C1_CaptureOrder ==
    /\ NonDecreasing(engineLog)
    /\ NonDecreasing(published)

\* C2: every emitted AudioSegment is handed to the transcription engine at
\* most once, also after a force-transcribe has queued it again
C2_TranscribedAtMostOnce ==
    \A id \in 1..Len(segs) : Occurrences(engineLog, id) <= 1

\* a step in which _save_current_buffer flushed a non-empty buffer
FlushStep == lastFlush'.id # lastFlush.id

\* C3: a buffer shorter than min_audio_duration yields no AudioSegment, no
\* file, no queue entry and no callback, whatever triggered the flush; every
\* AudioSegment created has a duration of at least min_audio_duration
C3_ShortBufferDiscarded ==
    [][FlushStep =>
        /\ Len(lastFlush'.data) * TicksPerSecond
              < cfg.min_audio_duration * cfg.sample_rate
           => /\ UNCHANGED <<segs, files, transcription_queue>>
              /\ \A i \in 1..Len(segment_queue') :
                    \E j \in 1..Len(segment_queue) :
                        segment_queue'[i] = segment_queue[j]
        /\ Len(segs') > Len(segs)
           => segs'[Len(segs')].n * TicksPerSecond
                 >= cfg.min_audio_duration * cfg.sample_rate]_vars

\* C3 witness: the final flush of stop found a buffer that was too short
C3_Witness ==
    /\ lastFlush.trigger = "stop"
    /\ lastFlush.outcome = "short"
    /\ lastFlush.data # <<>>

\* C5: during one uninterrupted silence period the silence trigger flushes
\* the buffer exactly once; the same period triggers no further flush
C5_OneFlushPerSilence == silenceFlushes <= 1

\* C7: after every flush the buffer is empty and the silence timer is unset
C7_FlushClearsState ==
    [][FlushStep => audio_buffer' = <<>> /\ silence_start' = None]_vars

\* C8: the chunk duration is a hard cap: after every poll less than
\* chunk_duration has elapsed since the last flush, the buffer never holds
\* more than the frames of the time since the last flush, and no AudioSegment
\* is longer than chunk_duration plus one poll interval
C8_ChunkCap ==
    /\ (recPc = "loop" /\ ~pollDue)
       => now - segment_start_time < cfg.chunk_duration
    /\ recPc = "loop"
       => Len(audio_buffer) * TicksPerSecond
             <= (now - segment_start_time + 1) * cfg.sample_rate
    /\ \A i \in 1..Len(segs) :
          segs[i].n * TicksPerSecond <= (cfg.chunk_duration + 1) * cfg.sample_rate

\* C8 witness: the cap flushed a segment of chunk_duration plus one poll
\* interval while the silence timer was running
C8_Witness ==
    /\ lastFlush.trigger = "chunk"
    /\ lastFlush.outcome = "emitted"
    /\ Len(lastFlush.data) = cfg.chunk_duration + 1
    /\ silence_start # None

\* C9: no frame delivered while capture was paused is in the buffer or in a
\* flushed segment
C9_PausedFramesDropped ==
    /\ \A i \in 1..Len(audio_buffer) : ~audio_buffer[i].pz
    /\ \A i \in 1..Len(segs) : segs[i].np = 0
    /\ cbPc # "idle" => ~cbFrame.pz

\* C9 witness: a segment was emitted whose accumulation saw frames dropped
C9_Witness ==
    /\ lastFlush.outcome = "emitted"
    /\ lastFlush.dropped

\* a step of pause_recording or resume_recording
PauseOrResumeStep == appPaused' # appPaused \/ nPauses' # nPauses

NumChunks(d) == (Len(d) + ChunkSize(cfg) - 1) \div ChunkSize(cfg)
SubChunk(d, k) ==
    SubSeq(d, (k - 1) * ChunkSize(cfg) + 1,
           IF k * ChunkSize(cfg) < Len(d) THEN k * ChunkSize(cfg) ELSE Len(d))
Gate2 == cfg.noise_gate_threshold * cfg.noise_gate_threshold
LoudChunks(d) ==
    {k \in 1..NumChunks(d) : SumSq(SubChunk(d, k)) > Gate2 * Len(SubChunk(d, k))}
OverallBelowGate(d) == SumSq(d) < Gate2 * Len(d)

\* C4: a buffer that passed the duration check is discarded as low content
\* exactly when its overall RMS is below the noise gate or fewer than 10% of
\* its 100 ms sub-chunks have an RMS above the gate
C4_ContentDecision ==
    lastFlush.outcome \in {"lowcontent", "emitted", "encodefail"} =>
        (lastFlush.outcome = "lowcontent"
            <=> \/ OverallBelowGate(lastFlush.data)
                \/ 10 * Cardinality(LoudChunks(lastFlush.data))
                      < NumChunks(lastFlush.data))

\* C4 witness: a buffer with overall RMS above the gate and a content ratio
\* below 10% was discarded
C4_Witness ==
    /\ lastFlush.outcome = "lowcontent"
    /\ SumSq(lastFlush.data) > Gate2 * Len(lastFlush.data)
    /\ 10 * Cardinality(LoudChunks(lastFlush.data)) < NumChunks(lastFlush.data)

\* C6 as stated: in the scenario every emitted segment lasts about 4.0 s
\* (within one poll interval): the audio without the trailing silence
C6_SegmentIsAudioOnly ==
    \A i \in 1..Len(segs) :
        /\ segs[i].n >= ScenarioAudio - 1
        /\ segs[i].n <= ScenarioAudio + 1

\* C6 amended: in the scenario exactly one segment is emitted, at the poll at
\* which 5.0 s of silence have elapsed, and it lasts about 9.0 s (within one
\* poll interval): the 4.0 s of audio and the trailing silence up to the flush
C6_SegmentIncludesSilence ==
    /\ Len(segs) <= 1
    /\ \A i \in 1..Len(segs) :
          /\ segs[i].n >= ScenarioAudio + cfg.silence_duration
          /\ segs[i].n <= ScenarioAudio + cfg.silence_duration + 1
          /\ segs[i].end = ScenarioAudio + 1 + cfg.silence_duration
    /\ (now = ScenarioEnd /\ ~pollDue) => Len(segs) = 1

\* C6 witness: the scenario has run to its end and the segment was emitted
C6_Witness ==
    /\ now = ScenarioEnd
    /\ ~pollDue
    /\ Len(segs) = 1
    /\ lastFlush.id > 1

\* the step of stop_recording that follows the join of the control thread
FinalFlushStep == stopPc = "joinRec" /\ stopPc' = "joinWorker"

\* C11: when stop is requested while the buffer passes the duration and the
\* content check, nothing is flushed between the request and the join of the
\* control thread, and the flush after the join is the one flush of the
\* shutdown: it emits one AudioSegment that holds all samples that remained
\* (unless writing the file fails)
C11_OneFinalFlush ==
    [][(stopPc = "joinRec" /\ FlushOutcome(stopBuf, cfg, TRUE) = "emitted") =>
        /\ stopPc' = "joinRec" => ~FlushStep
        /\ FinalFlushStep =>
              /\ FlushStep
              /\ lastFlush'.trigger = "stop"
              /\ SubSeq(lastFlush'.data, 1, Len(stopBuf)) = stopBuf
              /\ lastFlush'.outcome \in {"emitted", "encodefail"}
              /\ lastFlush'.outcome = "emitted" =>
                    /\ Len(segs') = Len(segs) + 1
                    /\ segs'[Len(segs')].n = Len(lastFlush'.data)]_vars

\* a start that ended with the backend not initialized
StartFailedStep == startPc = "loading" /\ startPc' = "idle" /\ ~model'

\* C12: when initializing the transcription backend fails, start leaves no
\* partial start: the application is not marked running, no worker thread
\* runs, and the capture was not started (recording false, no control thread,
\* no stream)
C12_NoPartialStart ==
    [][StartFailedStep =>
        /\ ~running'
        /\ ~processing'
        /\ wPc' \in {"none", "done"}
        /\ ~recording'
        /\ recPc' \in {"none", "done"}
        /\ ~stream']_vars

\* C12 witness: a start has failed and the application is at rest
C12_Witness ==
    /\ nStarts > 0
    /\ startPc = "idle"
    /\ ~model
    /\ ~running
    /\ wPc = "none"
    /\ recPc = "none"

\* a step in which the engine call of the worker ends
EngineReturnStep == wPc = "engine" /\ wPc' # "engine"

\* a step in which the worker takes a segment off the transcription queue
DequeueStep ==
    wPc = "get" /\ wPc' # "get" /\ Len(transcription_queue') < Len(transcription_queue)

\* C14: once the result of a successful transcription has been published,
\* the audio file of the segment no longer exists, with or without a
\* registered callback
C14_FileDeletedAfterResult ==
    [][(EngineReturnStep /\ Len(published') > Len(published))
        => segs[wSeg].path \notin files']_vars

\* C15: after stop_processing has set the stop event the worker begins no
\* transcription
C15_NoNewWorkAfterStop ==
    [][t_stop_event => engineLog' = engineLog]_vars

\* C13 as stated: every segment the worker takes off the queue and hands to
\* the engine yields one result on the result queue
C13_EveryConsumedYieldsResult ==
    [][EngineReturnStep => Len(result_queue') = Len(result_queue) + 1]_vars

\* C13 amended: a consumed segment yields at most one result: exactly one,
\* of that segment, when its engine call returns, and none when the engine
\* raises or the file is missing; results appear by no other step
C13_ResultPerEngineReturn ==
    [][/\ (EngineReturnStep /\ lastOutcome' # "raise")
            => /\ result_queue' = Append(result_queue, wSeg)
               /\ published' = Append(published, wSeg)
       /\ (EngineReturnStep /\ lastOutcome' = "raise")
            => UNCHANGED <<result_queue, published>>
       /\ DequeueStep => UNCHANGED <<result_queue, published>>
       /\ (result_queue' # result_queue \/ published' # published)
            => EngineReturnStep]_vars

\* C13 witness: of two segments handed to the engine the first raised and
\* the second yielded the only result
C13_Witness ==
    /\ Len(engineLog) = 2
    /\ wPc = "top"
    /\ published = <<engineLog[2]>>
    /\ result_queue = <<engineLog[2]>>
    /\ engineLog[1] # engineLog[2]

\* C16: a dequeued segment whose file no longer exists is skipped: the engine
\* is not entered, no result is queued or published, no callback runs (no
\* file is removed), the statistics are unchanged, and the worker is back at
\* the top of its loop
C16_MissingFileSkipped ==
    [][(DequeueStep /\ segs[Head(transcription_queue)].path \notin files) =>
        /\ wPc' = "top"
        /\ UNCHANGED <<engineLog, result_queue, published, files,
                       total_processed, model_lock, wSeg>>]_vars

\* C16 witness: a segment was transcribed and its file removed by the
\* callback, the worker skipped the second copy of it, whose file was gone,
\* passed its stop test again and waits on the queue
C16_Witness ==
    /\ lastOutcome = "missing"
    /\ Len(engineLog) = 1
    /\ published = engineLog
    /\ wPc = "get"
    /\ ~t_stop_event

\* C17: when the engine raises, no result is queued or published, no callback
\* runs and the file stays on disk, the statistics are unchanged, the segment
\* is not queued again, and the worker is back at the top of its loop
C17_EngineErrorDropsSegment ==
    [][(EngineReturnStep /\ lastOutcome' = "raise") =>
        /\ wPc' = "top"
        /\ segs[wSeg].path \in files'
        /\ UNCHANGED <<result_queue, published, files, total_processed,
                       transcription_queue, processing, t_stop_event>>]_vars

\* C17 witness: after the engine raised on one segment the worker
\* transcribed the following one
C17_Witness ==
    /\ Len(engineLog) = 2
    /\ Len(published) = 1
    /\ published[1] = engineLog[2]
    /\ total_processed = 1
    /\ segs[engineLog[1]].path \in files
    /\ lastOutcome = "text"

\* the threads that are inside `with self._model_lock`
InModelLock ==
    {t \in {"worker", "caller", "main"} :
        \/ t = "worker" /\ wPc = "engine"
        \/ t = "caller" /\ callerPc \in {"loading", "engine"}
        \/ t = "main" /\ startPc = "loading"}

C18_EncodeFailureDropsSegment ==
    [][(FlushStep /\ lastFlush'.outcome = "encodefail") =>
        /\ FileName(now) \notin files'
        /\ UNCHANGED <<segs, transcription_queue>>
        /\ \A i \in 1..Len(segment_queue') :
              \E j \in 1..Len(segment_queue) : segment_queue'[i] = segment_queue[j]
        /\ audio_buffer' = <<>>
        /\ recPc = "body" => (recPc' = "loop" /\ stream')]_vars

\* C18 witness: a flush of the control loop failed to write its file, and the
\* loop has since polled again
C18_Witness ==
    /\ lastFlush.outcome = "encodefail"
    /\ lastFlush.trigger \in {"chunk", "silence"}
    /\ recPc = "body"
    /\ audio_buffer # <<>>

\* C20: when the stream cannot be opened the control thread ends; the loop
\* runs only with an open stream, an ended thread evaluates no flush trigger,
\* and only a new start creates a control thread again
C20_OpenFailureEndsLoop ==
    [][/\ (recPc = "open" /\ recPc' # "open" /\ ~stream') => recPc' = "done"
       /\ recPc' \in {"loop", "body"} => stream'
       /\ (recPc = "done" /\ FlushStep) => lastFlush'.trigger = "stop"
       /\ (recPc = "done" /\ recPc' # "done") => startPc = "loading"]_vars

\* C20 witness: the stream could not be opened; the thread has ended while
\* the capture is still flagged as recording
C20_Witness ==
    /\ recPc = "done"
    /\ recording
    /\ ~stop_event
    /\ ~stream
    /\ lastFlush.id = 0

\* every id of s, in order, with no id twice
RECURSIVE StrictlyIncreasing(_)
StrictlyIncreasing(s) ==
    IF Len(s) < 2 THEN TRUE
    ELSE s[1] < s[2] /\ StrictlyIncreasing(Tail(s))

\* C21: every emitted AudioSegment is either still on the capture-side queue
\* or has been returned by a call of get_completed_segments, never both and
\* never twice, and the segments returned so far followed by the queued
\* ones are in flush order: none is lost without being returned, the one
\* of the final flush at stop included
C21_DrainReturnsEverySegment ==
    /\ StrictlyIncreasing(returned \o segment_queue)
    /\ \A id \in 1..Len(segs) :
          Occurrences(returned \o segment_queue, id) = 1

\* C22: the samples of every written file are the buffer's samples scaled
\* by 32767 and clamped to the int16 range: a sample of magnitude above 1.0
\* is written as -32768 or 32767, never as a value wrapped modulo 2^16
C22_EncodingClamps ==
    lastFlush.outcome = "emitted" =>
        /\ Len(lastFlush.wav.samples) = Len(lastFlush.data)
        /\ \A i \in 1..Len(lastFlush.data) :
              lastFlush.wav.samples[i] = Saturate16(Scaled(lastFlush.data[i]))

\* C23: every written file is mono 16-bit PCM at the configured sample rate
\* and has as many frames as the flushed buffer has samples, whatever the
\* configured channel count
C23_MonoFileOfBufferLength ==
    lastFlush.outcome = "emitted" =>
        /\ lastFlush.wav.nchannels = 1
        /\ lastFlush.wav.sampwidth = 2
        /\ lastFlush.wav.framerate = cfg.sample_rate
        /\ Len(lastFlush.wav.samples) = Len(lastFlush.data)
        /\ WavFrames(lastFlush.wav) = Len(lastFlush.data)

\* C26: the application is marked running only after the backend has been
\* initialized and the capture has been started: whenever is_running() is
\* true the worker thread and the control thread have been started, and a
\* start that ends in failure never shows running = true
C26_RunningOnlyWhenStarted ==
    running =>
        /\ model
        /\ wPc # "none"
        /\ recPc # "none"
        /\ startPc = "idle"

ScoreStep == cbPc = "score" /\ cbPc' = "idle"

\* the RMS of the frame being scored is strictly above silence_threshold
FrameAboveThreshold ==
    cbFrame.lvl * cbFrame.lvl > cfg.silence_threshold * cfg.silence_threshold

\* C28: scoring a frame whose RMS is strictly above silence_threshold clears
\* the silence timer and records the time as last-audio time; scoring a
\* frame at or below the threshold starts the timer only if it is not
\* running, never restarts a running one, and leaves the last-audio time
C28_ScoringUpdatesSilenceState ==
    [][ScoreStep =>
        IF FrameAboveThreshold
        THEN /\ silence_start' = None
             /\ last_audio_time' = now
        ELSE /\ silence_start' =
                    (IF silence_start = None THEN now ELSE silence_start)
             /\ last_audio_time' = last_audio_time]_vars

\* C28 witness: a frame exactly at the threshold was scored while the timer
\* was running since an earlier tick, after audio had been heard; the timer
\* still shows the earlier tick
C28_Witness ==
    /\ cbPc = "idle"
    /\ audio_buffer # <<>>
    /\ audio_buffer[Len(audio_buffer)] = cbFrame
    /\ cbFrame.lvl = cfg.silence_threshold
    /\ silence_start # None
    /\ silence_start < now
    /\ last_audio_time # None
    /\ last_audio_time < silence_start

\* a step in which the control loop runs the body of one iteration
PollStep == recPc = "body" /\ recPc' = "loop"

\* C29: at a poll (at which the chunk cap does not flush first) the buffer
\* is flushed by silence if and only if the silence timer is running, at
\* least silence_duration has elapsed on it and the buffer is non-empty; so
\* a buffer of nothing but below-threshold frames since the capture started
\* is flushed once silence_duration has elapsed
C29_SilenceFlushCondition ==
    [][(PollStep /\ ~ChunkElapsed(now, segment_start_time, cfg)) =>
        ((FlushStep /\ lastFlush'.trigger = "silence")
            <=> /\ silence_start # None
                /\ now - silence_start >= cfg.silence_duration
                /\ audio_buffer # <<>>)]_vars

\* the worker is between segments: at the top of its loop or waiting on the
\* queue (or not running)
WorkerIdle == wPc \in {"none", "top", "get", "done"}

\* C30: whenever the worker is idle between segments, the processed count
\* is the number of results put on the result queue and the cumulative
\* processing time is the sum of their processing times; a skipped (missing
\* file) or failed segment changes neither, and neither ever decreases
C30_StatisticsMatchResults ==
    /\ [](WorkerIdle =>
            /\ total_processed = Len(published)
            /\ total_processed = Len(resultTimes)
            /\ total_processing_time = Sum(resultTimes))
    /\ [][/\ total_processed' >= total_processed
          /\ total_processing_time' >= total_processing_time
          /\ (DequeueStep /\ lastOutcome' = "missing" /\ wPc' = "top")
                => UNCHANGED <<total_processed, total_processing_time>>
          /\ (EngineReturnStep /\ lastOutcome' = "raise")
                => UNCHANGED <<total_processed, total_processing_time>>]_vars

\* C30 witness: the worker is idle after one result that took two ticks and
\* one failed segment
C30_Witness ==
    /\ wPc = "top"
    /\ Len(engineLog) = 2
    /\ lastOutcome = "raise"
    /\ total_processed = 1
    /\ total_processing_time = 2

\* C24: frames enter the buffer only by the callback's append, at the end;
\* they leave it only by the clear of a flush, which removes exactly the
\* frames that flush concatenated; and the data a flush checks and writes
\* is what it concatenated.  So under every interleaving each appended frame
\* is in the data of exactly one flush, in arrival order
C24_TakenAndClearedAtomically ==
    [][/\ audio_buffer' # audio_buffer =>
             \/ /\ cbPc = "append"
                /\ audio_buffer' = Append(audio_buffer, cbFrame)
             \/ /\ flush.pc = "clear"
                /\ audio_buffer' = <<>>
                /\ flush.data = audio_buffer
       /\ (flush.pc = "concat" /\ flush'.pc = "clear") =>
             flush'.data = audio_buffer
       /\ (flush.pc = "write" /\ flush'.pc # "write") => FlushStep
       /\ FlushStep =>
             /\ flush.pc = "write"
             /\ lastFlush'.data = AudioData(flush.data)
             /\ lastFlush'.trigger = flush.trigger]_vars

\* C24 witness: a frame was appended while a flush had taken the buffer and
\* was about to write it
C24_Witness ==
    /\ flush.pc = "write"
    /\ flush.trigger \in {"chunk", "silence"}
    /\ cbPc = "score"
    /\ audio_buffer = <<cbFrame>>

\* C25: the buffer lock is held by a flush only to concatenate and clear
\* the buffer: it is free while the flush checks, writes the WAV file and
\* runs the segment callback, so the audio callback's append is never kept
\* waiting by file I/O
C25_LockNotHeldDuringWrite ==
    /\ buffer_lock = "flush" => flush.pc \in {"concat", "clear"}
    /\ flush.pc \in {"idle", "acquire", "write"} => buffer_lock = "free"
    /\ (flush.pc = "write" /\ cbPc = "append") => ENABLED AudioCallbackAppend

\* C25 witness: the callback is about to append while a flush is writing
C25_Witness ==
    /\ flush.pc = "write"
    /\ Len(flush.data) >= cfg.min_audio_duration
    /\ cbPc = "append"
    /\ buffer_lock = "free"

\* C35: the application's paused flag agrees with the capture controller's
\* paused flag in every state reached through start, stop, pause and resume
C35_PausedFlagsAgree == appPaused = paused

\* C36: is_recording() (`self._recording and not self._paused`) is true only
\* while the control loop is alive: between its start and its end
C36_RecordingOnlyWhileLoopAlive ==
    (recording /\ ~paused) => recPc \notin {"none", "done"}

\* C37: two segments that both await transcription have different backing
\* files: no flush writes to the path of an earlier segment that is still
\* queued
C37_DistinctFilePaths ==
    \A i, j \in 1..Len(transcription_queue) :
        transcription_queue[i] # transcription_queue[j] =>
            segs[transcription_queue[i]].path # segs[transcription_queue[j]].path

InQueue(q, id) == \E i \in 1..Len(q) : q[i] = id

\* the audio file of segment id exists
FileOnDisk(id) == id <= Len(segs) /\ segs[id].path \in files

\* C31: a segment that is on the transcription queue with its file on disk
\* is eventually handed to the engine (or its file is removed), whatever
\* the application does in between, stop included
C31_AcceptedEventuallyTranscribed ==
    \A id \in 1..MaxSegsLive :
        (InQueue(transcription_queue, id) /\ FileOnDisk(id))
            ~> (InQueue(engineLog, id) \/ ~FileOnDisk(id))

\* C32: no result is passed to _on_transcription_complete more often than
\* it was produced: for every segment, the handler has run at most once per
\* result of that segment put on the result queue
C32_ResultHandledOnce ==
    \A id \in 1..Len(segs) :
        Occurrences(handled, id) <= Occurrences(published, id)

\* C38: an exception of a completion callback is contained.  When the
\* segment callback raises in a flush of the control loop, the new segment
\* is on the segment queue, its file is on disk, nothing was queued for
\* transcription and the loop is back at its test.  When the transcription
\* callback raises, the result is on the result queue, both statistics
\* count it, the file is left as it was, and the worker is back at its test
C38_CallbackExceptionContained ==
    [][/\ (PollStep /\ FlushStep /\ lastFlush'.outcome = "emitted"
             /\ "segment" \in raising) =>
            /\ segment_queue' = Append(segment_queue, Len(segs'))
            /\ segs'[Len(segs')].path \in files'
            /\ transcription_queue' = transcription_queue
            /\ recPc' = "loop"
       /\ (EngineReturnStep /\ lastOutcome' # "raise" /\ callback_set
             /\ "result" \in raising) =>
            /\ result_queue' = Append(result_queue, wSeg)
            /\ total_processed' = total_processed + 1
            /\ total_processing_time' =
                   total_processing_time + ProcessingTime(wSeg)
            /\ files' = files
            /\ wPc' = "top"]_vars

\* C38 witness: both callbacks raise; the segment of a loop flush was moved
\* on by the dashboard and transcribed, its result is queued and counted and
\* its file is still on disk
C38_Witness ==
    /\ raising = {"segment", "result"}
    /\ lastFlush.trigger \in {"chunk", "silence"}
    /\ lastFlush.outcome = "emitted"
    /\ recPc = "loop"
    /\ result_queue = <<1>>
    /\ total_processed = 1
    /\ segs[1].path \in files
    /\ wPc = "top"

\* a thread that has been started and has not ended
Alive(pc) == pc \notin {"none", "done"}

\* C33: at most one worker thread is in the processing loop at any time
C33_OneWorker == ~(Alive(wPc) /\ Alive(oldW))

\* C34: at most one capture control loop is alive at any time
C34_OneControlLoop == ~(Alive(recPc) /\ Alive(oldRec.pc))

\* every variable but the count of the stop calls
C39_OtherState == <<cfg, now, frameDue, pollDue, recording, paused, stop_event,
                    recPc, segment_start_time, audio_buffer, segment_queue,
                    silence_start, last_audio_time, cbPc, cbFrame, segs, files,
                    lastFlush, silenceFlushes, droppedInBuf, running, appPaused,
                    stopPc, processing, t_stop_event, wPc, wSeg,
                    transcription_queue, result_queue, total_processed,
                    engineLog, published, nStarts, nPauses, stream, startPc,
                    model, model_lock, callback_set, callerPc, nCalls,
                    lastOutcome, stopBuf, returned, buffer_lock, flush,
                    total_processing_time, resultTimes, handled, raising, oldW,
                    oldRec>>

\* C39: a call of stop_recording on a capture that is not recording, and a
\* call of stop_processing on a service that is not processing, returns with
\* no flush, no file, no signal and no change of any state
C39_StopsIdempotent ==
    [][/\ (stopCalls'.recorder > stopCalls.recorder /\ ~recording)
            => UNCHANGED C39_OtherState
       /\ (stopCalls'.service > stopCalls.service /\ ~processing)
            => UNCHANGED C39_OtherState]_vars

\* C39 witness: both components were started, stopped and stopped again; the
\* first stop of the capture flushed a segment, the second one changed nothing
C39_Witness ==
    /\ stopCalls.recorder = 2
    /\ stopCalls.service = 2
    /\ nStarts = 2
    /\ ~recording
    /\ ~processing
    /\ stopPc = "idle"
    /\ recPc = "done"
    /\ wPc = "done"
    /\ lastFlush.trigger = "stop"
    /\ Len(segs) >= 1

====
